---- MODULE Spec2Model ----
(***************************************************************************)
(* Spreadsheet Service: the three host adapters (batched-sync "excel",     *)
(* in-memory "web", server-side scripting "gas"), the A1 address algebra   *)
(* they share, and the chat component's tool-approval flow.                *)
(*                                                                         *)
(* Strings are sequences of one-character strings, so that formatting an   *)
(* address and resolving it again are computed, not assumed.               *)
(***************************************************************************)
EXTENDS Integers, Sequences, FiniteSets, TLC

VARIABLES
    adapter,      \* which host adapter serves the call
    sheet,        \* live host sheet: [row, col] -> "blank" | "value" | "formula"
    rdRanges,     \* getCellRanges: the ranges argument of the next call
    rdLimit,      \* getCellRanges: the cellLimit argument
    rdAsked,      \* getCellRanges: the ranges argument of the call that produced rdResult
    rdResult,     \* getCellRanges: the last call's output
    rdPhase,      \* "idle" before the first call, "returned" after a call
    wrInput,      \* setCellRange / copyTo: the call's input, and where the host fails
    wrLog,        \* the host calls the operation issued, in order
    wrOutcome,    \* "none" | "ok" | "validation" | "hosterror"
    wrError,      \* what the validation error's message names
    srInput,      \* searchData: maxResults and offset of the call
    srLoop,       \* searchData, batched-sync adapter: the find-next loop's locals
    srResult,     \* searchData: the last call's output
    chatVariant,  \* which chat component runs
    editMode,     \* "ask" | "auto"
    toolCalls,    \* the tool parts of the assistant message, by position
    chatLog,      \* executions and approval clicks, in order
    colIndex,     \* column algebra: the zero-based index converted
    colLetter,    \* columnToLetter's output (<<>>: not yet converted)
    colBack,      \* letterToColumn's output (-1: not yet converted)
    prInput,      \* range parsing: the string parsed
    prResult,     \* range parsing: what the parser and the validator returned
    toolInput,    \* a single tool call: its input
    toolOutput    \* a single tool call: what it returned or threw

readVars == <<rdRanges, rdLimit, rdAsked, rdResult, rdPhase>>
writeVars == <<wrInput, wrLog, wrOutcome, wrError>>
searchVars == <<srInput, srLoop, srResult>>
chatVars == <<chatVariant, editMode, toolCalls, chatLog>>
algebraVars == <<colIndex, colLetter, colBack, prInput, prResult>>
toolVars == <<toolInput, toolOutput>>
vars == <<adapter, sheet, readVars, writeVars, searchVars, chatVars, algebraVars, toolVars>>

Adapters == {"excel", "web", "gas"}

----------------------------------------------------------------------------
(* Bounds of the model *)

MaxRows == 10      \* rows of the modelled sheet
MaxCols == 2       \* columns of the modelled sheet
MaxLimit == 5      \* largest cellLimit drawn
ShortRows == 2     \* rows spanned by the ranges of a multi-range request
BlankRows == 1     \* rows in which the sheet's one blank cell may lie
MaxDim == 3        \* rows and columns of a written range and of a cells array
MaxFailAt == 1     \* the host may reject any of its first MaxFailAt writes
SearchRows == 2    \* rows of a searched sheet
SearchCols == 4    \* columns of a searched sheet
MaxResults == 3    \* largest maxResults drawn
FindCells == 3     \* cells of the sheet searched by the find-next loop
MaxOffset == 2     \* largest offset given to the find-next loop
MaxCalls == 2      \* tool calls in the assistant message
MaxColumn == 10000 \* largest column index converted
MaxParseLen == 5   \* longest string given to the range parsers
CopyRows == 4      \* rows of the sheet that copies are made on
CopyCols == 2      \* columns of the sheet that copies are made on
MaxCount == 2      \* largest count given to modifySheetStructure

----------------------------------------------------------------------------
(* The parts of the state a specification does not exercise stay idle *)

NoResult == [cells |-> {}, hasMore |-> FALSE, nextRanges |-> <<>>]

ReadIdle ==
    /\ rdRanges = <<>>
    /\ rdLimit = 1
    /\ rdAsked = <<>>
    /\ rdResult = NoResult
    /\ rdPhase = "idle"

ChatIdle ==
    /\ chatVariant = "core"
    /\ editMode = "ask"
    /\ toolCalls = <<>>
    /\ chatLog = <<>>

NoParse == [called |-> FALSE, valid |-> FALSE,
            parsed |-> [ok |-> FALSE, startRow |-> 0, startCol |-> 0, endRow |-> 0, endCol |-> 0]]

AlgebraIdle ==
    /\ colIndex = 0
    /\ colLetter = <<>>
    /\ colBack = -1
    /\ prInput = <<>>
    /\ prResult = NoParse

\* no single tool call under way
NoTool == [tool |-> "none"]
NoOutput == [status |-> "none"]

ToolIdle ==
    /\ toolInput = NoTool
    /\ toolOutput = NoOutput

NoError == [kind |-> "none", row |-> 0, actual |-> 0, expected |-> 0]

\* no write operation under way
WriteIdle ==
    /\ wrInput = [op |-> "none"]
    /\ wrLog = <<>>
    /\ wrOutcome = "none"
    /\ wrError = NoError

NoSearchInput == [maxResults |-> 0, offset |-> 0]
NoLoop == [found |-> <<>>, first |-> <<>>, visited |-> {}, matches |-> <<>>, done |-> TRUE]
NoSearchResult ==
    [matches |-> <<>>, totalFound |-> 0, hasMore |-> FALSE, nextOffset |-> -1, called |-> FALSE]

\* no search under way
SearchIdle ==
    /\ srInput = NoSearchInput
    /\ srLoop = NoLoop
    /\ srResult = NoSearchResult

----------------------------------------------------------------------------
(* Characters and numbers <-> strings *)

Upper == <<"A","B","C","D","E","F","G","H","I","J","K","L","M",
           "N","O","P","Q","R","S","T","U","V","W","X","Y","Z">>
Lower == <<"a","b","c","d","e","f","g","h","i","j","k","l","m",
           "n","o","p","q","r","s","t","u","v","w","x","y","z">>
Digits == <<"0","1","2","3","4","5","6","7","8","9">>

Range(f) == {f[i] : i \in DOMAIN f}
IndexOf(f, ch) == CHOOSE i \in DOMAIN f : f[i] = ch

IsLetter(ch) == ch \in Range(Upper) \cup Range(Lower)
IsDigit(ch) == ch \in Range(Digits)

\* String.prototype.charCodeAt for the characters an address can hold
charCodeAt(ch) ==
    IF ch \in Range(Upper) THEN 64 + IndexOf(Upper, ch)
    ELSE IF ch \in Range(Lower) THEN 96 + IndexOf(Lower, ch)
    ELSE IF ch \in Range(Digits) THEN 47 + IndexOf(Digits, ch)
    ELSE IF ch = ":" THEN 58
    ELSE 32

\* String.fromCharCode on the codes columnToLetter produces (65..90)
fromCharCode(code) == Upper[code - 64]

\* String.prototype.toUpperCase, one character
toUpperCase(ch) == IF ch \in Range(Lower) THEN Upper[IndexOf(Lower, ch)] ELSE ch

RECURSIVE MapUpper(_)
MapUpper(s) == IF s = <<>> THEN <<>> ELSE <<toUpperCase(Head(s))>> \o MapUpper(Tail(s))

\* template-literal formatting of a non-negative integer
RECURSIVE NumToStr(_)
NumToStr(n) ==
    IF n < 10 THEN <<Digits[n + 1]>>
    ELSE NumToStr(n \div 10) \o <<Digits[(n % 10) + 1]>>

\* parseInt(s, 10) on a string of digits
RECURSIVE parseInt(_)
parseInt(s) ==
    IF s = <<>> THEN 0
    ELSE 10 * parseInt(SubSeq(s, 1, Len(s) - 1)) + (charCodeAt(s[Len(s)]) - 48)

----------------------------------------------------------------------------
(* Column letters *)

RECURSIVE columnToLetterLoop(_, _)
columnToLetterLoop(temp, letter) ==
    IF temp >= 0
    THEN columnToLetterLoop((temp \div 26) - 1,
                            <<fromCharCode((temp % 26) + 65)>> \o letter)
    ELSE letter

columnToLetter(columnIndex) == columnToLetterLoop(columnIndex, <<>>)

RECURSIVE letterToColumnLoop(_, _, _)
letterToColumnLoop(letter, i, column) ==
    IF i > Len(letter) THEN column
    ELSE letterToColumnLoop(letter, i + 1, column * 26 + (charCodeAt(letter[i]) - 64))

\* a letterToColumn that returns the one-based column
letterToColumnOneBased(letter) == letterToColumnLoop(letter, 1, 0)

letterToColumn(letter) == letterToColumnLoop(letter, 1, 0) - 1

----------------------------------------------------------------------------
(* A1 addresses *)

\* index of the first position >= i of s whose character fails the test
RECURSIVE SkipLetters(_, _)
SkipLetters(s, i) ==
    IF i <= Len(s) /\ IsLetter(s[i]) THEN SkipLetters(s, i + 1) ELSE i

RECURSIVE SkipDigits(_, _)
SkipDigits(s, i) ==
    IF i <= Len(s) /\ IsDigit(s[i]) THEN SkipDigits(s, i + 1) ELSE i

\* the four groups of a match of s whose first cell reference ends before
\* index b, the part after the colon being letters up to c and digits up to d
\* (<<>> for a group that did not take part), or ok = FALSE for no match
RangeGroups(s, a, b, c, d) ==
    IF b > Len(s)
    THEN [ok |-> TRUE, g1 |-> SubSeq(s, 1, a - 1), g2 |-> SubSeq(s, a, b - 1),
          g3 |-> <<>>, g4 |-> <<>>]
    ELSE IF s[b] = ":" /\ d > Len(s)
    THEN [ok |-> TRUE, g1 |-> SubSeq(s, 1, a - 1), g2 |-> SubSeq(s, a, b - 1),
          g3 |-> SubSeq(s, b + 1, c - 1), g4 |-> SubSeq(s, c, d - 1)]
    ELSE [ok |-> FALSE, g1 |-> <<>>, g2 |-> <<>>, g3 |-> <<>>, g4 |-> <<>>]

\* range.match(/^([A-Z]+)?(\d+)?(?::([A-Z]+)?(\d+)?)?$/i)
RangeMatch(s) ==
    RangeGroups(s,
        SkipLetters(s, 1),
        SkipDigits(s, SkipLetters(s, 1)),
        SkipLetters(s, SkipDigits(s, SkipLetters(s, 1)) + 1),
        SkipDigits(s, SkipLetters(s, SkipDigits(s, SkipLetters(s, 1)) + 1)))

NoRange == [ok |-> FALSE, startRow |-> 0, startCol |-> 0, endRow |-> 0, endCol |-> 0]

\* parseRangeAddress after the match: defaults for the groups left out
RangeOfMatch(m) ==
    IF ~m.ok THEN NoRange
    ELSE [ok |-> TRUE,
          startRow |-> IF m.g2 # <<>> THEN parseInt(m.g2) - 1 ELSE 0,
          startCol |-> IF m.g1 # <<>> THEN letterToColumn(MapUpper(m.g1)) ELSE 0,
          endRow |-> IF m.g4 # <<>> THEN parseInt(m.g4) - 1
                     ELSE IF m.g2 # <<>> THEN parseInt(m.g2) - 1 ELSE 999,
          endCol |-> IF m.g3 # <<>> THEN letterToColumn(MapUpper(m.g3))
                     ELSE IF m.g1 # <<>> THEN letterToColumn(MapUpper(m.g1)) ELSE 25]

\* in-memory adapter: parseRangeAddress (null is ok = FALSE)
parseRangeAddress(range) == RangeOfMatch(RangeMatch(range))

Min(x, y) == IF x <= y THEN x ELSE y
Max(x, y) == IF x <= y THEN y ELSE x

\* the rectangle between two corner cells, whichever way round they are given
HostRect(r1, c1, r2, c2) ==
    [rowIndex |-> Min(r1, r2), columnIndex |-> Min(c1, c2),
     rowCount |-> Max(r1, r2) - Min(r1, r2) + 1,
     columnCount |-> Max(c1, c2) - Min(c1, c2) + 1]

\* the corners a matched address names; a single cell is both corners
HostRectOfMatch(m) ==
    HostRect(parseInt(m.g2) - 1,
             letterToColumn(MapUpper(m.g1)),
             IF m.g4 # <<>> THEN parseInt(m.g4) - 1 ELSE parseInt(m.g2) - 1,
             IF m.g3 # <<>> THEN letterToColumn(MapUpper(m.g3))
             ELSE letterToColumn(MapUpper(m.g1)))

\* The host's own resolution of an A1 cell or cell-range address
\* (worksheet.getRange / sheet.getRange): zero-based rowIndex, columnIndex,
\* and rowCount, columnCount.
HostGetRange(address) == HostRectOfMatch(RangeMatch(address))

\* `${col}${row}:${col}${row}` from zero-based column indices and one-based rows
A1Range(c1, row1, c2, row2) ==
    columnToLetter(c1) \o NumToStr(row1) \o <<":">> \o columnToLetter(c2) \o NumToStr(row2)

\* `${columnToLetter(col)}${row}`
A1Cell(col, row) == columnToLetter(col) \o NumToStr(row)

----------------------------------------------------------------------------
(* getCellRanges *)

\* what the host reports for a cell; cells beyond the populated grid are empty
HostCell(row, col) ==
    IF <<row, col>> \in DOMAIN sheet THEN sheet[<<row, col>>] ELSE "blank"

\* value === "" && (!formula || formula === ""): a cell "blank" holds nothing,
\* a cell "note" holds only a note
EmptyNoFormula(kind) == kind \in {"blank", "note"}

\* const cells = {}; let totalCellCount = 0; let hasMore = false; const nextRanges = []
EmptyAcc == [cells |-> {}, total |-> 0, hasMore |-> FALSE, nextRanges |-> <<>>]

\* the value returned: nextRanges is set only if (hasMore && nextRanges.length > 0)
ReadResult(acc) ==
    [cells |-> acc.cells, hasMore |-> acc.hasMore,
     nextRanges |-> IF acc.hasMore /\ Len(acc.nextRanges) > 0 THEN acc.nextRanges ELSE <<>>]

\* ranges.slice(i) with i counted from 1
SliceFrom(ranges, i) == SubSeq(ranges, i, Len(ranges))

(* batched-sync adapter *)

RECURSIVE ExcelReadCols(_, _, _, _)
ExcelReadCols(acc, range, row, col) ==
    IF col >= range.columnCount THEN acc
    ELSE IF EmptyNoFormula(HostCell(range.rowIndex + row, range.columnIndex + col))
    THEN ExcelReadCols(acc, range, row, col + 1)
    ELSE ExcelReadCols(
            [acc EXCEPT !.cells = @ \cup {A1Cell(range.columnIndex + col,
                                                 range.rowIndex + row + 1)},
                        !.total = @ + 1],
            range, row, col + 1)

RECURSIVE ExcelReadRows(_, _, _, _, _, _)
ExcelReadRows(acc, range, row, i, ranges, cellLimit) ==
    IF row >= range.rowCount THEN acc
    ELSE IF acc.total >= cellLimit
    THEN [acc EXCEPT
            !.hasMore = TRUE,
            !.nextRanges = @ \o
                <<A1Range(range.columnIndex, range.rowIndex + row + 1,
                          range.columnIndex + range.columnCount - 1,
                          range.rowIndex + range.rowCount)>>
                \o SliceFrom(ranges, i + 1)]
    ELSE ExcelReadRows(ExcelReadCols(acc, range, row, 0),
                       range, row + 1, i, ranges, cellLimit)

RECURSIVE ExcelReadRanges(_, _, _, _)
ExcelReadRanges(acc, i, ranges, cellLimit) ==
    IF i > Len(ranges) THEN acc
    ELSE IF acc.total >= cellLimit
    THEN [acc EXCEPT !.nextRanges = @ \o SliceFrom(ranges, i), !.hasMore = TRUE]
    ELSE ExcelReadRanges(
            ExcelReadRows(acc, HostGetRange(ranges[i]), 0, i, ranges, cellLimit),
            i + 1, ranges, cellLimit)

ExcelGetCellRanges(ranges, cellLimit) ==
    ReadResult(ExcelReadRanges(EmptyAcc, 1, ranges, cellLimit))

(* server-side scripting adapter: getRow() and getColumn() count from 1 *)

RECURSIVE GasReadCols(_, _, _, _)
GasReadCols(acc, range, row, col) ==
    LET startRow == range.rowIndex + 1
        startCol == range.columnIndex + 1
    IN  IF col >= range.columnCount THEN acc
        ELSE IF EmptyNoFormula(HostCell(range.rowIndex + row, range.columnIndex + col))
        THEN GasReadCols(acc, range, row, col + 1)
        ELSE GasReadCols(
                [acc EXCEPT !.cells = @ \cup {A1Cell(startCol + col - 1, startRow + row)},
                            !.total = @ + 1],
                range, row, col + 1)

RECURSIVE GasReadRows(_, _, _, _, _, _)
GasReadRows(acc, range, row, i, ranges, cellLimit) ==
    LET startRow == range.rowIndex + 1
        startCol == range.columnIndex + 1
    IN  IF row >= range.rowCount THEN acc
        ELSE IF acc.total >= cellLimit
        THEN [acc EXCEPT
                !.hasMore = TRUE,
                !.nextRanges = @ \o
                    <<A1Range(startCol - 1, startRow + row,
                              startCol + range.columnCount - 2,
                              startRow + range.rowCount - 1)>>
                    \o SliceFrom(ranges, i + 1)]
        ELSE GasReadRows(GasReadCols(acc, range, row, 0),
                         range, row + 1, i, ranges, cellLimit)

RECURSIVE GasReadRanges(_, _, _, _)
GasReadRanges(acc, i, ranges, cellLimit) ==
    IF i > Len(ranges) THEN acc
    ELSE IF ranges[i] = <<>> THEN GasReadRanges(acc, i + 1, ranges, cellLimit)
    ELSE IF acc.total >= cellLimit
    THEN [acc EXCEPT !.nextRanges = @ \o SliceFrom(ranges, i), !.hasMore = TRUE]
    ELSE GasReadRanges(
            GasReadRows(acc, HostGetRange(ranges[i]), 0, i, ranges, cellLimit),
            i + 1, ranges, cellLimit)

GasGetCellRanges(ranges, cellLimit) ==
    ReadResult(GasReadRanges(EmptyAcc, 1, ranges, cellLimit))

(* in-memory adapter: every visited cell counts towards the limit *)

RECURSIVE WebReadCols(_, _, _, _)
WebReadCols(acc, rangeInfo, row, col) ==
    IF col > rangeInfo.endCol THEN acc
    ELSE WebReadCols(
            [acc EXCEPT !.cells = IF HostCell(row, col) = "blank" THEN @
                                  ELSE @ \cup {A1Cell(col, row + 1)},
                        !.total = @ + 1],
            rangeInfo, row, col + 1)

RECURSIVE WebReadRows(_, _, _, _)
WebReadRows(acc, rangeInfo, row, cellLimit) ==
    IF row > rangeInfo.endRow THEN acc
    ELSE IF acc.total >= cellLimit THEN [acc EXCEPT !.hasMore = TRUE]
    ELSE WebReadRows(WebReadCols(acc, rangeInfo, row, rangeInfo.startCol),
                     rangeInfo, row + 1, cellLimit)

RECURSIVE WebReadRanges(_, _, _, _)
WebReadRanges(acc, i, ranges, cellLimit) ==
    IF i > Len(ranges) THEN acc
    ELSE IF ranges[i] = <<>> THEN WebReadRanges(acc, i + 1, ranges, cellLimit)
    ELSE IF acc.total >= cellLimit
    THEN [acc EXCEPT !.nextRanges = @ \o SliceFrom(ranges, i), !.hasMore = TRUE]
    ELSE LET rangeInfo == parseRangeAddress(ranges[i])
         IN  IF ~rangeInfo.ok THEN WebReadRanges(acc, i + 1, ranges, cellLimit)
             ELSE WebReadRanges(
                    WebReadRows(acc, rangeInfo, rangeInfo.startRow, cellLimit),
                    i + 1, ranges, cellLimit)

WebGetCellRanges(ranges, cellLimit) ==
    ReadResult(WebReadRanges(EmptyAcc, 1, ranges, cellLimit))

AdapterGetCellRanges(a, ranges, cellLimit) ==
    CASE a = "excel" -> ExcelGetCellRanges(ranges, cellLimit)
      [] a = "gas" -> GasGetCellRanges(ranges, cellLimit)
      [] a = "web" -> WebGetCellRanges(ranges, cellLimit)

\* the rectangle the serving adapter resolves an address to
Resolve(a, address) ==
    IF a = "web"
    THEN LET p == parseRangeAddress(address)
         IN  [rowIndex |-> p.startRow, columnIndex |-> p.startCol,
              rowCount |-> p.endRow - p.startRow + 1,
              columnCount |-> p.endCol - p.startCol + 1]
    ELSE HostGetRange(address)

----------------------------------------------------------------------------
(* The reading specification: one request, then the follow-up calls *)

Grid == (0 .. MaxRows - 1) \X (0 .. MaxCols - 1)

\* every cell holds a value, except at most one cell of the first rows,
\* which is empty, holds a formula, or holds only a note
Sheets ==
    {[p \in Grid |-> "value"]} \cup
    {[p \in Grid |-> IF p = q THEN k ELSE "value"] :
        q \in (0 .. BlankRows - 1) \X (0 .. MaxCols - 1), k \in {"blank", "formula", "note"}}

Rects(rows) ==
    {A1Range(c1, r1 + 1, c2, r2 + 1) :
        <<r1, r2>> \in {x \in (0 .. rows - 1) \X (0 .. rows - 1) : x[1] <= x[2]},
        <<c1, c2>> \in {x \in (0 .. MaxCols - 1) \X (0 .. MaxCols - 1) : x[1] <= x[2]}}

RangeLists ==
    {<<a>> : a \in Rects(MaxRows)} \cup
    {<<a, b>> : a \in Rects(ShortRows), b \in Rects(ShortRows)}

InitRead ==
    /\ WriteIdle
    /\ SearchIdle
    /\ ChatIdle
    /\ AlgebraIdle
    /\ ToolIdle
    /\ adapter \in Adapters
    /\ sheet \in Sheets
    /\ rdRanges \in RangeLists
    /\ rdLimit \in 1 .. MaxLimit
    /\ rdAsked = <<>>
    /\ rdResult = NoResult
    /\ rdPhase = "idle"

\* the agent's call
GetCellRanges ==
    /\ rdPhase = "idle"
    /\ rdResult' = AdapterGetCellRanges(adapter, rdRanges, rdLimit)
    /\ rdAsked' = rdRanges
    /\ rdRanges' = rdResult'.nextRanges
    /\ rdPhase' = "returned"
    /\ UNCHANGED <<adapter, sheet, rdLimit, writeVars, searchVars, chatVars, algebraVars, toolVars>>

\* the agent's follow-up call with the nextRanges it was given
FollowUp ==
    /\ rdPhase = "returned"
    /\ rdResult.hasMore
    /\ Len(rdRanges) > 0
    /\ rdResult' = AdapterGetCellRanges(adapter, rdRanges, rdLimit)
    /\ rdAsked' = rdRanges
    /\ rdRanges' = rdResult'.nextRanges
    /\ UNCHANGED <<adapter, sheet, rdLimit, rdPhase, writeVars, searchVars, chatVars, algebraVars, toolVars>>

NextRead == GetCellRanges \/ FollowUp

SpecRead == InitRead /\ [][NextRead]_vars

----------------------------------------------------------------------------
(* Pagination of getCellRanges *)

InRect(p, rect) ==
    /\ rect.rowIndex <= p[1] /\ p[1] < rect.rowIndex + rect.rowCount
    /\ rect.columnIndex <= p[2] /\ p[2] < rect.columnIndex + rect.columnCount

\* how many entries of a list of ranges cover the cell p
CoverCount(a, p, ranges) ==
    Cardinality({i \in DOMAIN ranges : InRect(p, Resolve(a, ranges[i]))})

\* the address keys of the non-empty cells of the first k rows of a rectangle
FilledCells(rect, k) ==
    {A1Cell(c, r + 1) :
        <<r, c>> \in {p \in (rect.rowIndex .. rect.rowIndex + k - 1)
                            \X (rect.columnIndex .. rect.columnIndex + rect.columnCount - 1) :
                        ~EmptyNoFormula(HostCell(p[1], p[2]))}}

\* the last call read one single-column range whose rows are all populated
OneFullColumn ==
    /\ rdPhase = "returned"
    /\ Len(rdAsked) = 1
    /\ LET rect == Resolve(adapter, rdAsked[1])
       IN  /\ rect.columnCount = 1
           /\ \A r \in rect.rowIndex .. rect.rowIndex + rect.rowCount - 1 :
                  ~EmptyNoFormula(HostCell(r, rect.columnIndex))

\* C1: with cellLimit = L on a single one-column range of R populated rows,
\* L < R, the call returns exactly L cells, hasMore = true, and nextRanges
\* covering exactly the remaining R - L rows, in every adapter.
C1_PaginationEveryAdapter ==
    (OneFullColumn /\ rdLimit < Resolve(adapter, rdAsked[1]).rowCount) =>
        LET rect == Resolve(adapter, rdAsked[1])
        IN  /\ Cardinality(rdResult.cells) = rdLimit
            /\ rdResult.hasMore
            /\ \A p \in Grid :
                  CoverCount(adapter, p, rdResult.nextRanges) =
                      IF InRect(p, rect) /\ p[1] >= rect.rowIndex + rdLimit THEN 1 ELSE 0

\* the spec's own instance of C1: cellLimit 5 on ten populated rows
C1_FiveOfTen ==
    /\ OneFullColumn
    /\ rdLimit = 5
    /\ Resolve(adapter, rdAsked[1]).rowCount = 10

\* a truncated call over `asked` stopped before range i (k = 0) or after the
\* first k rows of range i: what was returned, and what nextRanges must be
TruncatedAt(a, asked, res, i, k) ==
    LET rect == Resolve(a, asked[i])
        before == UNION {FilledCells(Resolve(a, asked[j]), Resolve(a, asked[j]).rowCount) :
                            j \in 1 .. i - 1}
    IN  /\ res.cells = before \cup FilledCells(rect, k)
        /\ IF k = 0
           THEN res.nextRanges = SliceFrom(asked, i)
           ELSE /\ Len(res.nextRanges) = 1 + Len(asked) - i
                /\ Resolve(a, res.nextRanges[1]) =
                       [rowIndex |-> rect.rowIndex + k, columnIndex |-> rect.columnIndex,
                        rowCount |-> rect.rowCount - k, columnCount |-> rect.columnCount]
                /\ Tail(res.nextRanges) = SliceFrom(asked, i + 1)

\* C2: when a call over several ranges is truncated, nextRanges holds each
\* fully unprocessed range exactly once, verbatim, and the unprocessed rows of
\* the partially processed range exactly once (batched-sync and server-side
\* scripting adapters, the ones the claim is drawn from).
C2_NextRangesExactlyOnce ==
    (/\ rdPhase = "returned"
     /\ adapter \in {"excel", "gas"}
     /\ Len(rdAsked) >= 2
     /\ rdResult.hasMore) =>
        \E i \in 1 .. Len(rdAsked) :
            \E k \in 0 .. Resolve(adapter, rdAsked[i]).rowCount - 1 :
                TruncatedAt(adapter, rdAsked, rdResult, i, k)

\* C11: in the cells map getCellRanges returns, an address is present only if
\* its cell is non-trivial: a cell with an empty value and no formula is
\* omitted, in every adapter.
C11_SparseCells ==
    rdPhase = "returned" =>
        \A p \in Grid :
            A1Cell(p[2], p[1] + 1) \in rdResult.cells
                => ~EmptyNoFormula(HostCell(p[1], p[2]))

\* a call over a range holding a note-only cell that left that cell out
C11_ReadOverEmptyCell ==
    /\ rdPhase = "returned"
    /\ adapter = "gas"
    /\ rdResult.cells # {}
    /\ \E p \in Grid :
          /\ HostCell(p[1], p[2]) = "note"
          /\ InRect(p, Resolve(adapter, rdAsked[1]))
          /\ A1Cell(p[2], p[1] + 1) \notin rdResult.cells

----------------------------------------------------------------------------
(* setCellRange and copyTo: the host calls each adapter issues, in order *)

\* the writes among the host calls, by the step of setCellRange they belong to
ValueOps == {"setValues", "setValue"}
FormulaOps == {"setFormula"}
FormatOps == {"setStyle", "setBorder", "setNote"}
CopyOps == {"copyFrom", "copyTo", "copyCell"}
ResizeOps == {"resizeColumns", "resizeRows"}
WriteOps == ValueOps \cup FormulaOps \cup FormatOps \cup CopyOps \cup ResizeOps

RECURSIVE Flatten(_)
Flatten(ss) == IF ss = <<>> THEN <<>> ELSE Head(ss) \o Flatten(Tail(ss))

\* the cells of the input in the order the loops visit them, row by row
EachCell(cells) == Flatten(cells)

Repeat(n, ops) == Flatten([i \in 1 .. n |-> ops])

\* cells.some((row) => row.some((cell) => cell?.formula))
HasFormulas(cells) ==
    \E r \in DOMAIN cells : \E c \in DOMAIN cells[r] : cells[r][c].formula

\* "Validate dimensions": the first mismatch, as the thrown message names it
ValidateDimensions(cells, rowCount, colCount) ==
    IF Len(cells) # rowCount
    THEN [kind |-> "rowCount", row |-> 0, actual |-> Len(cells), expected |-> rowCount]
    ELSE IF \E r \in DOMAIN cells : Len(cells[r]) # colCount
    THEN LET r == CHOOSE x \in DOMAIN cells :
                    /\ Len(cells[x]) # colCount
                    /\ \A y \in 1 .. x - 1 : Len(cells[y]) = colCount
         IN  [kind |-> "columnCount", row |-> r - 1,
              actual |-> Len(cells[r]), expected |-> colCount]
    ELSE NoError

IfOps(cond, ops) == IF cond THEN ops ELSE <<>>

(* batched-sync adapter *)

ExcelFormulaWrite(cell) == IfOps(cell.formula, <<"setFormula">>)

ExcelCellFormat(cell) ==
    IfOps(cell.cellStyles, <<"setStyle">>)
    \o IfOps(cell.borderStyles, <<"setBorder">>)
    \o IfOps(cell.note, <<"load", "sync", "setNote">>)

\* after the formula writes: the final sync, then the values are loaded again
ExcelReadBack(hasFormulas) == IfOps(hasFormulas, <<"load", "sync">>)

\* the calls of a run in which the host rejects nothing
ExcelSetCellRange(in) ==
    LET rect == HostGetRange(in.range)
        err == ValidateDimensions(in.cells, rect.rowCount, rect.columnCount)
        open == <<"load", "sync", "getRange", "load", "sync">>
    IN  IF err # NoError
        THEN [log |-> open, error |-> err]
        ELSE [log |-> open
                    \o <<"setValues">>
                    \o IfOps(HasFormulas(in.cells), Flatten([k \in DOMAIN EachCell(in.cells) |-> ExcelFormulaWrite(EachCell(in.cells)[k])]))
                    \o Flatten([k \in DOMAIN EachCell(in.cells) |-> ExcelCellFormat(EachCell(in.cells)[k])])
                    \o <<"sync">>
                    \o IfOps(in.copyToRange, <<"getRange", "copyFrom", "sync">>)
                    \o IfOps(in.resizeWidth, <<"resizeColumns">>)
                    \o IfOps(in.resizeHeight, <<"resizeRows">>)
                    \o <<"sync">>
                    \o ExcelReadBack(HasFormulas(in.cells)),
              error |-> NoError]

ExcelCopyTo(in) ==
    [log |-> <<"load", "sync", "getRange", "getRange", "copyFrom", "sync">>,
     error |-> NoError]

(* server-side scripting adapter *)

GasFormulaWrite(cell) == IfOps(cell.formula, <<"getCell", "setFormula">>)

GasCellFormat(cell) ==
    <<"getCell">>
    \o IfOps(cell.cellStyles, <<"setStyle">>)
    \o IfOps(cell.borderStyles, <<"setBorder">>)
    \o IfOps(cell.note, <<"setNote">>)

\* a read-back that reads the values before the recalculation is flushed
GasReadBackBeforeFlush(hasFormulas) == IfOps(hasFormulas, <<"getValues", "flush">>)

\* "Get formula results for cells with formulas"
GasReadBack(hasFormulas) == IfOps(hasFormulas, <<"flush", "getValues">>)

GasSetCellRange(in) ==
    LET rect == HostGetRange(in.range)
        err == ValidateDimensions(in.cells, rect.rowCount, rect.columnCount)
        open == <<"getSheets", "getRange", "getNumRows", "getNumColumns">>
    IN  IF err # NoError
        THEN [log |-> open, error |-> err]
        ELSE [log |-> open
                    \o <<"setValues">>
                    \o IfOps(HasFormulas(in.cells), Flatten([k \in DOMAIN EachCell(in.cells) |-> GasFormulaWrite(EachCell(in.cells)[k])]))
                    \o Flatten([k \in DOMAIN EachCell(in.cells) |-> GasCellFormat(EachCell(in.cells)[k])])
                    \o IfOps(in.copyToRange, <<"getRange", "copyTo">>)
                    \o IfOps(in.resizeWidth,
                             <<"getColumn">> \o Repeat(rect.columnCount, <<"resizeColumns">>))
                    \o IfOps(in.resizeHeight,
                             <<"getRow">> \o Repeat(rect.rowCount, <<"resizeRows">>))
                    \o GasReadBack(HasFormulas(in.cells)),
              error |-> NoError]

GasCopyTo(in) ==
    [log |-> <<"getSheets", "getRange", "getRange", "copyTo">>, error |-> NoError]

(* in-memory adapter: no dimension check; cell by cell, value or formula,   *)
(* then note, style and border of the same cell                             *)

WebCellWrite(cell) ==
    (IF cell.formula THEN <<"setFormula">>
     ELSE IfOps(cell.value, <<"setValue">>))
    \o IfOps(cell.note, <<"getComment", "setNote">>)
    \o IfOps(cell.cellStyles, <<"getStyle", "setStyle">>)
    \o IfOps(cell.borderStyles, <<"getCell", "setBorder">>)

WebReadBack(cell) == IfOps(cell.formula, <<"getValue">>)

\* the body of the try block of setCellRange
WebSetCellRangeBody(in) ==
    LET rangeInfo == parseRangeAddress(in.range)
        destCells == (rangeInfo.endRow - rangeInfo.startRow + 1)
                        * (rangeInfo.endCol - rangeInfo.startCol + 1)
    IN  Flatten([k \in DOMAIN EachCell(in.cells) |-> WebCellWrite(EachCell(in.cells)[k])])
        \o <<"resumeCalcService">>
        \o Flatten([k \in DOMAIN EachCell(in.cells) |-> WebReadBack(EachCell(in.cells)[k])])
        \o IfOps(in.copyToRange, Repeat(destCells, <<"getFormula", "copyCell">>))
        \o IfOps(in.resizeWidth,
                 Repeat(rangeInfo.endCol - rangeInfo.startCol + 1, <<"resizeColumns">>))
        \o IfOps(in.resizeHeight,
                 Repeat(rangeInfo.endRow - rangeInfo.startRow + 1, <<"resizeRows">>))

\* what precedes the try block
WebSetCellRangeOpen == <<"getSheet", "suspendPaint", "suspendCalcService">>

\* the finally block
WebSetCellRangeFinally == <<"resumePaint">>

WebCopyToOpen == <<"getSheet", "suspendPaint">>
WebCopyToBody == <<"copyTo">>
WebCopyToFinally == <<"resumePaint">>

(* a host that rejects a write: the call throws and the write has no effect *)

RECURSIVE WritesIn(_)
WritesIn(log) ==
    IF log = <<>> THEN 0
    ELSE WritesIn(Tail(log)) + (IF Head(log) \in WriteOps THEN 1 ELSE 0)

\* the calls issued before the k-th write of log (all of log when it has fewer)
RECURSIVE UpToWrite(_, _)
UpToWrite(log, k) ==
    IF log = <<>> THEN <<>>
    ELSE IF Head(log) \in WriteOps
    THEN IF k = 1 THEN <<>> ELSE <<Head(log)>> \o UpToWrite(Tail(log), k - 1)
    ELSE <<Head(log)>> \o UpToWrite(Tail(log), k)

Rejected(log, failAt) == failAt > 0 /\ failAt <= WritesIn(log)

\* an operation without a finally block: the throw ends it
RunPlain(run, failAt) ==
    IF run.error # NoError
    THEN [log |-> run.log, outcome |-> "validation", error |-> run.error]
    ELSE IF Rejected(run.log, failAt)
    THEN [log |-> UpToWrite(run.log, failAt), outcome |-> "hosterror", error |-> NoError]
    ELSE [log |-> run.log, outcome |-> "ok", error |-> NoError]

\* open; try { body } finally { final }
RunTryFinally(open, body, final, failAt) ==
    IF Rejected(body, failAt)
    THEN [log |-> open \o UpToWrite(body, failAt) \o final,
          outcome |-> "hosterror", error |-> NoError]
    ELSE [log |-> open \o body \o final, outcome |-> "ok", error |-> NoError]

AdapterSetCellRange(a, in) ==
    CASE a = "excel" -> RunPlain(ExcelSetCellRange(in), in.failAt)
      [] a = "gas" -> RunPlain(GasSetCellRange(in), in.failAt)
      [] a = "web" -> RunTryFinally(WebSetCellRangeOpen, WebSetCellRangeBody(in),
                                    WebSetCellRangeFinally, in.failAt)

AdapterCopyTo(a, in) ==
    CASE a = "excel" -> RunPlain(ExcelCopyTo(in), in.failAt)
      [] a = "gas" -> RunPlain(GasCopyTo(in), in.failAt)
      [] a = "web" -> RunTryFinally(WebCopyToOpen, WebCopyToBody,
                                    WebCopyToFinally, in.failAt)

----------------------------------------------------------------------------
(* The writing specification: one setCellRange or copyTo call *)

\* the cells a caller sends: a value, a formula, a styled value with a note,
\* a formula with a border, an empty object
CellKinds ==
    << [value |-> TRUE, formula |-> FALSE, cellStyles |-> FALSE, borderStyles |-> FALSE, note |-> FALSE],
       [value |-> FALSE, formula |-> TRUE, cellStyles |-> FALSE, borderStyles |-> FALSE, note |-> FALSE],
       [value |-> TRUE, formula |-> FALSE, cellStyles |-> TRUE, borderStyles |-> FALSE, note |-> TRUE],
       [value |-> FALSE, formula |-> TRUE, cellStyles |-> FALSE, borderStyles |-> TRUE, note |-> FALSE],
       [value |-> FALSE, formula |-> FALSE, cellStyles |-> FALSE, borderStyles |-> FALSE, note |-> FALSE] >>

PatternCell(r, c, p) == CellKinds[((2 * r + c + p) % Len(CellKinds)) + 1]

\* n rows of m cells, but row `bad` (if any) of w cells
CellArray(n, m, bad, w, p) ==
    [r \in 1 .. n |-> [c \in 1 .. (IF r = bad THEN w ELSE m) |-> PatternCell(r, c, p)]]

\* rectangular arrays of every shape, and the arrays of the range's shape
\* with one row too short or too long
CellArrays(rowCount, colCount) ==
    {CellArray(n, m, 0, 0, p) : n \in 1 .. MaxDim, m \in 1 .. MaxDim, p \in 1 .. Len(CellKinds)}
    \cup {CellArray(rowCount, colCount, bad, w, p) :
            bad \in 1 .. rowCount, w \in (0 .. MaxDim) \ {colCount}, p \in 1 .. Len(CellKinds)}

\* a setCellRange input for a range of rowCount x colCount cells at A1
SetCellRangeInput(rowCount, colCount, cells, copyToRange, resizeWidth, resizeHeight, failAt) ==
    [op |-> "setCellRange", range |-> A1Range(0, 1, colCount - 1, rowCount),
     cells |-> cells, copyToRange |-> copyToRange,
     resizeWidth |-> resizeWidth, resizeHeight |-> resizeHeight, failAt |-> failAt]

CopyToInputs == [op : {"copyTo"}, failAt : 0 .. MaxFailAt]

InitWrite ==
    /\ ReadIdle
    /\ SearchIdle
    /\ ChatIdle
    /\ AlgebraIdle
    /\ ToolIdle
    /\ adapter \in Adapters
    /\ sheet = <<>>
    /\ \/ \E rowCount, colCount \in 1 .. MaxDim :
             \E cells \in CellArrays(rowCount, colCount) :
                \E copyToRange, resizeWidth, resizeHeight \in BOOLEAN :
                   \E failAt \in 0 .. MaxFailAt :
                      wrInput = SetCellRangeInput(rowCount, colCount, cells, copyToRange,
                                                  resizeWidth, resizeHeight, failAt)
       \/ wrInput \in CopyToInputs
    /\ wrLog = <<>>
    /\ wrOutcome = "none"
    /\ wrError = NoError

SetCellRange ==
    /\ wrOutcome = "none"
    /\ wrInput.op = "setCellRange"
    /\ LET done == AdapterSetCellRange(adapter, wrInput)
       IN  /\ wrLog' = done.log
           /\ wrOutcome' = done.outcome
           /\ wrError' = done.error
    /\ UNCHANGED <<adapter, sheet, wrInput, readVars, searchVars, chatVars, algebraVars, toolVars>>

CopyTo ==
    /\ wrOutcome = "none"
    /\ wrInput.op = "copyTo"
    /\ LET done == AdapterCopyTo(adapter, wrInput)
       IN  /\ wrLog' = done.log
           /\ wrOutcome' = done.outcome
           /\ wrError' = done.error
    /\ UNCHANGED <<adapter, sheet, wrInput, readVars, searchVars, chatVars, algebraVars, toolVars>>

NextWrite == SetCellRange \/ CopyTo

SpecWrite == InitWrite /\ [][NextWrite]_vars

----------------------------------------------------------------------------
(* Properties of setCellRange *)

Count(log, op) == Cardinality({i \in DOMAIN log : log[i] = op})

SetCellRangeDone == wrInput.op = "setCellRange" /\ wrOutcome # "none"

\* the cells array does not have the dimensions of the range
DimensionMismatch ==
    LET rect == Resolve(adapter, wrInput.range)
    IN  \/ Len(wrInput.cells) # rect.rowCount
        \/ \E r \in DOMAIN wrInput.cells : Len(wrInput.cells[r]) # rect.columnCount

\* the error names the expected and the actual count, and the offending row
\* when a row has the wrong length
ErrorNamesMismatch ==
    LET rect == Resolve(adapter, wrInput.range)
        cells == wrInput.cells
    IN  \/ /\ wrError.kind = "rowCount"
           /\ wrError.actual = Len(cells) /\ wrError.expected = rect.rowCount
           /\ wrError.actual # wrError.expected
        \/ /\ wrError.kind = "columnCount"
           /\ wrError.row + 1 \in DOMAIN cells
           /\ wrError.actual = Len(cells[wrError.row + 1])
           /\ wrError.expected = rect.columnCount
           /\ wrError.actual # wrError.expected

\* C3: in every adapter, setCellRange fails with a validation error naming the
\* offending row and the expected and actual counts whenever the cells array
\* does not match the range's dimensions; nothing is written.
C3_MismatchIsValidationError ==
    (SetCellRangeDone /\ DimensionMismatch) =>
        /\ wrOutcome = "validation"
        /\ ErrorNamesMismatch
        /\ WritesIn(wrLog) = 0

\* C4: an operation whose input is invalid fails fast, before the host is
\* touched: stated here for the part that matters most, no mutating host call
\* is issued for a setCellRange whose cells do not match the range.
C4_InvalidInputMutatesNothing ==
    (SetCellRangeDone /\ DimensionMismatch) =>
        (wrOutcome = "validation" /\ \A i \in DOMAIN wrLog : wrLog[i] \notin WriteOps)

\* the step of setCellRange a write belongs to, 0 for a call that writes nothing
StepOf(op) ==
    CASE op \in ValueOps -> 1
      [] op \in FormulaOps -> 2
      [] op \in FormatOps -> 3
      [] op \in CopyOps -> 4
      [] op \in ResizeOps -> 5
      [] OTHER -> 0

\* C5: within one setCellRange call, in every adapter, values are written
\* before formulas, formulas before styles, borders and notes, those before
\* the copyToRange step, and that step before any resize.
C5_WriteOrder ==
    SetCellRangeDone =>
        \A i, j \in DOMAIN wrLog :
            (i < j /\ StepOf(wrLog[i]) > 0 /\ StepOf(wrLog[j]) > 0)
                => StepOf(wrLog[i]) <= StepOf(wrLog[j])

\* C6: in the in-memory adapter every paint suspension and every
\* recalculation suspension is released on every exit path of the operation.
C6_SuspensionsReleased ==
    (adapter = "web" /\ wrOutcome # "none") =>
        /\ Count(wrLog, "suspendPaint") = Count(wrLog, "resumePaint")
        /\ Count(wrLog, "suspendCalcService") = Count(wrLog, "resumeCalcService")

\* C10: in the server-side scripting adapter setCellRange flushes at most
\* once, and a call that writes formulas flushes after the last formula write
\* and before the computed values are read back.
C10_FlushOnceBeforeReadBack ==
    (adapter = "gas" /\ SetCellRangeDone) =>
        /\ Count(wrLog, "flush") <= 1
        /\ (wrOutcome = "ok" /\ HasFormulas(wrInput.cells)) =>
              \E f \in DOMAIN wrLog :
                  /\ wrLog[f] = "flush"
                  /\ \A i \in DOMAIN wrLog :
                        /\ wrLog[i] \in FormulaOps \cup CopyOps => i < f
                        /\ wrLog[i] = "getValues" => i > f
                  /\ \E i \in DOMAIN wrLog : wrLog[i] = "getValues"

\* a completed server-side call that wrote formulas and read them back
C10_Witness ==
    /\ adapter = "gas"
    /\ SetCellRangeDone
    /\ wrOutcome = "ok"
    /\ HasFormulas(wrInput.cells)
    /\ Count(wrLog, "setFormula") >= 2
    /\ Count(wrLog, "getValues") = 1

----------------------------------------------------------------------------
(* searchData: a cell "value" holds the search term, a cell "other" does not *)

\* the cells of a rows x cols used range in document order
RowMajor(rows, cols) ==
    [k \in 1 .. rows * cols |-> <<(k - 1) \div cols, (k - 1) % cols>>]

SearchResult(matches, totalFound, hasMore, nextOffset) ==
    [matches |-> matches, totalFound |-> totalFound, hasMore |-> hasMore,
     nextOffset |-> nextOffset, called |-> TRUE]

(* server-side scripting adapter: one pass, counting the matches skipped *)

RECURSIVE GasSearchCells(_, _, _, _, _)
GasSearchCells(st, order, k, offset, maxResults) ==
    IF k > Len(order) THEN st
    ELSE LET row == order[k][1]
             col == order[k][2]
             isMatch == HostCell(row, col) = "value"
             st1 == IF ~isMatch THEN st
                    ELSE IF st.matchCount >= offset /\ Len(st.matches) < maxResults
                    THEN [st EXCEPT !.matches = Append(@, A1Cell(1 + col - 1, 1 + row)),
                                    !.matchCount = @ + 1]
                    ELSE IF Len(st.matches) >= maxResults
                    THEN [st EXCEPT !.foundMore = TRUE, !.matchCount = @ + 1]
                    ELSE [st EXCEPT !.matchCount = @ + 1]
         IN  IF Len(st1.matches) >= maxResults /\ st1.foundMore THEN st1
             ELSE GasSearchCells(st1, order, k + 1, offset, maxResults)

GasSearchData(rows, cols, offset, maxResults) ==
    LET st == GasSearchCells([matches |-> <<>>, matchCount |-> 0, foundMore |-> FALSE],
                             RowMajor(rows, cols), 1, offset, maxResults)
    IN  SearchResult(st.matches, st.matchCount, st.foundMore,
                     IF st.foundMore THEN offset + Len(st.matches) ELSE -1)

(* in-memory adapter: no offset; stops at maxResults matches *)

RECURSIVE WebSearchCells(_, _, _, _)
WebSearchCells(matches, order, k, maxResults) ==
    IF k > Len(order) THEN matches
    ELSE IF Len(matches) >= maxResults THEN matches
    ELSE WebSearchCells(
            IF HostCell(order[k][1], order[k][2]) = "value"
            THEN Append(matches, A1Cell(order[k][2], order[k][1] + 1))
            ELSE matches,
            order, k + 1, maxResults)

WebSearchData(rows, cols, maxResults) ==
    LET matches == WebSearchCells(<<>>, RowMajor(rows, cols), 1, maxResults)
    IN  SearchResult(matches, Len(matches), FALSE, -1)

(* batched-sync adapter: the find-next loop *)

NullObject == <<>>

\* Range.address as the host gives it: sheet name, "!", cell
HostAddress(row, col) == <<"S", "!">> \o A1Cell(col, row + 1)

\* address.split("!")[1] || address
RECURSIVE AfterBang(_, _)
AfterBang(address, i) ==
    IF i > Len(address) THEN address
    ELSE IF address[i] = "!"
    THEN (IF i = Len(address) THEN address ELSE SubSeq(address, i + 1, Len(address)))
    ELSE AfterBang(address, i + 1)

\* the addresses of the cells holding the term
MatchAddresses(rows, cols) ==
    {HostAddress(p[1], p[2]) : p \in {q \in (0 .. rows - 1) \X (0 .. cols - 1) :
                                        HostCell(q[1], q[2]) = "value"}}

\* searchRange.findOrNullObject(searchTerm, {searchDirection: forward}): the
\* first cell of the range holding the term
HostFindFirst(rows, cols) ==
    LET order == RowMajor(rows, cols)
        hits == {k \in DOMAIN order : HostCell(order[k][1], order[k][2]) = "value"}
    IN  IF hits = {} THEN NullObject
        ELSE LET k == CHOOSE x \in hits : \A y \in hits : x <= y
             IN  HostAddress(order[k][1], order[k][2])

\* visitedAddresses.has(address) with no effect: every address looks new
NeverVisited(visited, address) == FALSE

\* visitedAddresses.has(address)
AlreadyVisited(visited, address) == address \in visited

\* the loop's locals after the first find
FindLoopStart(found) ==
    [found |-> found, first |-> found, visited |-> {}, matches |-> <<>>, done |-> FALSE]

\* one iteration of while (!foundRange.isNullObject); next is what the find
\* issued at the end of the iteration returns
FindLoopStep(st, next, offset, maxResults) ==
    IF st.found = NullObject THEN [st EXCEPT !.done = TRUE]
    ELSE IF AlreadyVisited(st.visited, st.found) THEN [st EXCEPT !.done = TRUE]
    ELSE LET visited == st.visited \cup {st.found}
         IN  IF Len(st.matches) >= offset + maxResults
             THEN [st EXCEPT !.visited = visited, !.done = TRUE]
             ELSE [found |-> next,
                   first |-> st.first,
                   visited |-> visited,
                   matches |-> IF Len(st.matches) >= offset
                               THEN Append(st.matches, AfterBang(st.found, 1))
                               ELSE st.matches,
                   done |-> next # NullObject /\ next = st.first]

RECURSIVE ExcelFindLoop(_, _, _, _, _)
ExcelFindLoop(st, rows, cols, offset, maxResults) ==
    IF st.done THEN st
    ELSE ExcelFindLoop(FindLoopStep(st, HostFindFirst(rows, cols), offset, maxResults),
                       rows, cols, offset, maxResults)

\* what follows the loop
ExcelSearchResult(matches, offset, maxResults) ==
    SearchResult(SubSeq(matches, 1, Min(maxResults, Len(matches))),
                 Len(matches) + offset,
                 Len(matches) > maxResults,
                 IF Len(matches) > maxResults THEN offset + maxResults ELSE -1)

ExcelSearchData(rows, cols, offset, maxResults) ==
    ExcelSearchResult(
        ExcelFindLoop(FindLoopStart(HostFindFirst(rows, cols)),
                      rows, cols, offset, maxResults).matches,
        offset, maxResults)

AdapterSearchData(a, rows, cols, offset, maxResults) ==
    CASE a = "excel" -> ExcelSearchData(rows, cols, offset, maxResults)
      [] a = "gas" -> GasSearchData(rows, cols, offset, maxResults)
      [] a = "web" -> WebSearchData(rows, cols, maxResults)

----------------------------------------------------------------------------
(* The searching specification: pages of one search, offset 0, m, 2m, ... *)

SearchGrid == (0 .. SearchRows - 1) \X (0 .. SearchCols - 1)

\* the matching cells of the sheet in document order, as A1 addresses
RECURSIVE MatchesFrom(_, _)
MatchesFrom(order, k) ==
    IF k > Len(order) THEN <<>>
    ELSE (IF HostCell(order[k][1], order[k][2]) = "value"
          THEN <<A1Cell(order[k][2], order[k][1] + 1)>> ELSE <<>>)
         \o MatchesFrom(order, k + 1)

AllMatches == MatchesFrom(RowMajor(SearchRows, SearchCols), 1)

InitSearch ==
    /\ ReadIdle
    /\ WriteIdle
    /\ ChatIdle
    /\ AlgebraIdle
    /\ ToolIdle
    /\ adapter \in Adapters
    /\ sheet \in [SearchGrid -> {"value", "other"}]
    /\ srInput \in [maxResults : 1 .. MaxResults, offset : {0}]
    /\ srLoop = NoLoop
    /\ srResult = NoSearchResult

\* the agent asks for the page at offset k * maxResults
SearchData ==
    /\ \E k \in 0 .. SearchRows * SearchCols :
          /\ k * srInput.maxResults < Len(AllMatches) \/ k = 0
          /\ srInput' = [srInput EXCEPT !.offset = k * srInput.maxResults]
    /\ srResult' = AdapterSearchData(adapter, SearchRows, SearchCols,
                                     srInput'.offset, srInput.maxResults)
    /\ UNCHANGED <<adapter, sheet, srLoop, readVars, writeVars, chatVars, algebraVars, toolVars>>

NextSearch == SearchData

SpecSearch == InitSearch /\ [][NextSearch]_vars

\* C7: the pages at offsets 0, m, 2m, ... of a search with N matches are the
\* consecutive runs of m matches in document order (so disjoint, contiguous
\* and together all N), and hasMore is false only on the final page, in every
\* adapter.
C7_SearchPages ==
    srResult.called =>
        LET all == AllMatches
            from == srInput.offset
        IN  /\ srResult.matches =
                   SubSeq(all, from + 1, Min(from + srInput.maxResults, Len(all)))
            /\ srResult.hasMore = (from + srInput.maxResults < Len(all))

\* the spec's own instance of C7: seven matches, pages of three, last page
C7_SevenByThree ==
    /\ srResult.called
    /\ Len(AllMatches) = 7
    /\ srInput.maxResults = 3
    /\ srInput.offset = 6

----------------------------------------------------------------------------
(* The find-next specification: the batched-sync adapter's loop, one
   iteration per step, against a host free to return any matching cell or
   the null object from each find *)

FindGrid == {0} \X (0 .. FindCells - 1)

FindAnswers == MatchAddresses(1, FindCells) \cup {NullObject}

InitFind ==
    /\ ReadIdle
    /\ WriteIdle
    /\ ChatIdle
    /\ AlgebraIdle
    /\ ToolIdle
    /\ adapter = "excel"
    /\ sheet \in [FindGrid -> {"value", "other"}]
    /\ srInput \in [maxResults : 1 .. MaxResults, offset : 0 .. MaxOffset]
    /\ \E found \in FindAnswers : srLoop = FindLoopStart(found)
    /\ srResult = NoSearchResult

FindNext ==
    /\ ~srLoop.done
    /\ \E next \in FindAnswers :
          srLoop' = FindLoopStep(srLoop, next, srInput.offset, srInput.maxResults)
    /\ UNCHANGED <<adapter, sheet, srInput, srResult, readVars, writeVars, chatVars, algebraVars, toolVars>>

FindReturn ==
    /\ srLoop.done
    /\ ~srResult.called
    /\ srResult' = ExcelSearchResult(srLoop.matches, srInput.offset, srInput.maxResults)
    /\ UNCHANGED <<adapter, sheet, srInput, srLoop, readVars, writeVars, chatVars, algebraVars, toolVars>>

NextFind == FindNext \/ FindReturn

\* the loop is straight-line awaited code: an iteration that can run, runs
SpecFind == InitFind /\ [][NextFind]_vars /\ WF_vars(NextFind)

\* C9: the batched-sync adapter's find-next loop terminates, whatever the
\* sheet holds and whatever the host's finds return.
C9_FindLoopTerminates == <>(srLoop.done /\ srResult.called)

\* the loop ended after visiting several cells with a non-zero offset
C9_Witness ==
    /\ srLoop.done
    /\ srResult.called
    /\ Cardinality(srLoop.visited) >= 2
    /\ srInput.offset > 0

----------------------------------------------------------------------------
(* The chat components: tool calls, approval and execution *)

writeTools ==
    {"clearCellRange", "copyTo", "modifyObject", "modifySheetStructure",
     "modifyWorkbookStructure", "setCellRange"}

isWriteTool(toolName) == toolName \in writeTools

\* the agent marks exactly the write tools as needing approval
needsApproval(toolName) == toolName \in writeTools

EDIT_MODES == <<"ask", "auto">>

ChatVariants == {"core", "confirmation", "approvalBar"}

ChatLogged(event, id) == Append(chatLog, [event |-> event, id |-> id, mode |-> editMode])

\* executeTool: run the spreadsheet operation and add its output to the part
executeTool(calls, id) == [calls EXCEPT ![id].state = "output-available"]

\* addToolApprovalResponse on a part whose approval was requested
addToolApprovalResponse(calls, id, approved) ==
    [calls EXCEPT ![id].state = "approval-responded",
                  ![id].approval = IF approved THEN "approved" ELSE "denied"]

\* does the component's onToolCall execute the call?
OnToolCallExecutes(variant, toolName, mode) ==
    CASE variant = "core" -> ~isWriteTool(toolName)
      [] variant = "confirmation" -> TRUE
      [] variant = "approvalBar" -> IF isWriteTool(toolName) THEN mode = "auto" ELSE TRUE

\* the part's input arrives and the component's onToolCall handler runs
OnToolCall(id) ==
    /\ toolCalls[id].state = "pending"
    /\ \A j \in 1 .. id - 1 : toolCalls[j].state # "pending"
    /\ IF OnToolCallExecutes(chatVariant, toolCalls[id].toolName, editMode)
       THEN /\ toolCalls' = executeTool(toolCalls, id)
            /\ chatLog' = ChatLogged("execute", id)
       ELSE /\ toolCalls' = [toolCalls EXCEPT ![id].state = "input-available"]
            /\ UNCHANGED chatLog
    /\ UNCHANGED <<chatVariant, editMode>>

\* the agent's approval request for a call of a tool that needs approval
ApprovalRequest(id) ==
    /\ needsApproval(toolCalls[id].toolName)
    /\ toolCalls[id].approval = "none"
    /\ toolCalls[id].state \in {"input-available", "output-available"}
    /\ toolCalls' = [toolCalls EXCEPT ![id].state = "approval-requested",
                                      ![id].approval = "requested"]
    /\ UNCHANGED <<chatVariant, editMode, chatLog>>

\* the first part whose approval is requested (0: none)
PendingApproval ==
    LET waiting == {j \in DOMAIN toolCalls : toolCalls[j].state = "approval-requested"}
    IN  IF waiting = {} THEN 0 ELSE CHOOSE j \in waiting : \A k \in waiting : j <= k

\* can the user act on this part's approval controls?
ApprovalShown(id) ==
    /\ toolCalls[id].state = "approval-requested"
    /\ chatVariant = "core" => editMode = "ask"
    /\ chatVariant = "approvalBar" => id = PendingApproval

\* approve(): record the approval and execute
Approve(id, event) ==
    /\ toolCalls' = executeTool(addToolApprovalResponse(toolCalls, id, TRUE), id)
    /\ chatLog' = Append(ChatLogged(event, id),
                         [event |-> "execute", id |-> id, mode |-> editMode'])

\* rendering an approval-requested part in "auto" mode approves it
RenderAuto(id) ==
    /\ chatVariant = "core"
    /\ toolCalls[id].state = "approval-requested"
    /\ editMode = "auto"
    /\ UNCHANGED <<chatVariant, editMode>>
    /\ Approve(id, "auto-approve")

UserApprove(id) ==
    /\ ApprovalShown(id)
    /\ isWriteTool(toolCalls[id].toolName)
    /\ UNCHANGED <<chatVariant, editMode>>
    /\ Approve(id, "approve")

UserApproveAll(id) ==
    /\ chatVariant \in {"core", "approvalBar"}
    /\ ApprovalShown(id)
    /\ editMode' = "auto"
    /\ UNCHANGED chatVariant
    /\ Approve(id, "approve")

UserDecline(id) ==
    /\ ApprovalShown(id)
    /\ toolCalls' = addToolApprovalResponse(toolCalls, id, FALSE)
    /\ chatLog' = ChatLogged("decline", id)
    /\ UNCHANGED <<chatVariant, editMode>>

\* the user picks the other mode in the mode selector
SetEditMode ==
    /\ \E m \in Range(EDIT_MODES) : m # editMode /\ editMode' = m
    /\ UNCHANGED <<chatVariant, toolCalls, chatLog>>

----------------------------------------------------------------------------
(* The chat specification: one assistant message with MaxCalls tool calls *)

ChatTools == {"getCellRanges", "setCellRange", "copyTo"}

InitChat ==
    /\ AlgebraIdle
    /\ ToolIdle
    /\ ReadIdle
    /\ WriteIdle
    /\ SearchIdle
    /\ adapter = "excel"
    /\ sheet = <<>>
    /\ chatVariant \in ChatVariants
    /\ editMode = EDIT_MODES[1]
    /\ toolCalls \in [1 .. MaxCalls ->
                        [toolName : ChatTools, state : {"pending"}, approval : {"none"}]]
    /\ chatLog = <<>>

NextChat ==
    \/ SetEditMode /\ UNCHANGED <<adapter, sheet, readVars, writeVars, searchVars, algebraVars, toolVars>>
    \/ \E id \in 1 .. MaxCalls :
          /\ \/ OnToolCall(id)
             \/ ApprovalRequest(id)
             \/ RenderAuto(id)
             \/ UserApprove(id)
             \/ UserApproveAll(id)
             \/ UserDecline(id)
          /\ UNCHANGED <<adapter, sheet, readVars, writeVars, searchVars, algebraVars, toolVars>>

SpecChat == InitChat /\ [][NextChat]_vars

ExecutedAt(i) == chatLog[i].event = "execute"

\* C8: a write tool executed while the mode is "ask" was approved by the user
\* before, and a call the user declined is never executed.
C8_WriteNeedsApproval ==
    \A i \in DOMAIN chatLog :
        (ExecutedAt(i) /\ isWriteTool(toolCalls[chatLog[i].id].toolName)) =>
            /\ chatLog[i].mode = "ask" =>
                  \E j \in 1 .. i - 1 :
                      chatLog[j].event = "approve" /\ chatLog[j].id = chatLog[i].id
            /\ \A j \in DOMAIN chatLog :
                  ~(chatLog[j].event = "decline" /\ chatLog[j].id = chatLog[i].id)

\* a write tool was executed in "ask" mode in the core component
C8_AskModeExecution ==
    /\ chatVariant = "core"
    /\ \E i \in DOMAIN chatLog :
          /\ ExecutedAt(i)
          /\ chatLog[i].mode = "ask"
          /\ isWriteTool(toolCalls[chatLog[i].id].toolName)

----------------------------------------------------------------------------
(* The column algebra specification: an index is converted to letters and
   the letters back to an index; the three adapters carry the same two
   functions, line for line *)

InitColumns ==
    /\ ReadIdle
    /\ WriteIdle
    /\ SearchIdle
    /\ ChatIdle
    /\ ToolIdle
    /\ adapter \in Adapters
    /\ sheet = <<>>
    /\ colIndex \in 0 .. MaxColumn
    /\ colLetter = <<>>
    /\ colBack = -1
    /\ prInput = <<>>
    /\ prResult = NoParse

ColumnToLetter ==
    /\ colLetter = <<>>
    /\ colLetter' = columnToLetter(colIndex)
    /\ UNCHANGED <<adapter, sheet, colIndex, colBack, prInput, prResult,
                   readVars, writeVars, searchVars, chatVars, toolVars>>

LetterToColumn ==
    /\ colLetter # <<>>
    /\ colBack = -1
    /\ colBack' = letterToColumn(colLetter)
    /\ UNCHANGED <<adapter, sheet, colIndex, colLetter, prInput, prResult,
                   readVars, writeVars, searchVars, chatVars, toolVars>>

NextColumns == ColumnToLetter \/ LetterToColumn

SpecColumns == InitColumns /\ [][NextColumns]_vars

\* C12: for every zero-based column index n in [0, 10000],
\* letterToColumn(columnToLetter(n)) = n.
C12_ColumnRoundTrip ==
    /\ colLetter # <<>> =>
          /\ Len(colLetter) \in 1 .. 3
          /\ \A i \in DOMAIN colLetter : colLetter[i] \in Range(Upper)
    /\ colBack # -1 => colBack = colIndex

\* the largest index of the claim went through both conversions, by way of
\* a three-letter column
C12_LastColumn ==
    /\ colIndex = 10000
    /\ Len(colLetter) = 3
    /\ colBack = 10000

----------------------------------------------------------------------------
(* Range parsing: the in-memory adapter's parseRangeAddress and the tool
   schema's isValidCellRange *)

\* input.replace(/\s/g, "")
RECURSIVE StripWhitespace(_)
StripWhitespace(s) ==
    IF s = <<>> THEN <<>>
    ELSE (IF Head(s) = " " THEN <<>> ELSE <<Head(s)>>) \o StripWhitespace(Tail(s))

\* [A-Z]+ without the i flag
UpperLetters(s) == s # <<>> /\ \A i \in DOMAIN s : s[i] \in Range(Upper)

\* \d+
DigitString(s) == s # <<>> /\ \A i \in DOMAIN s : IsDigit(s[i])

\* [A-Z]+\d+
UpperCell(s) ==
    \E k \in 1 .. Len(s) - 1 :
        UpperLetters(SubSeq(s, 1, k)) /\ DigitString(SubSeq(s, k + 1, Len(s)))

\* the part of s before index i, and the part after it
Before(s, i) == SubSeq(s, 1, i - 1)
After(s, i) == SubSeq(s, i + 1, Len(s))

\* /^[A-Z]+\d+(:[A-Z]+\d+)?$/
cellOrCellRange(s) ==
    \/ UpperCell(s)
    \/ \E i \in DOMAIN s : s[i] = ":" /\ UpperCell(Before(s, i)) /\ UpperCell(After(s, i))

\* /^[A-Z]+:[A-Z]+$/
columnRange(s) ==
    \E i \in DOMAIN s : s[i] = ":" /\ UpperLetters(Before(s, i)) /\ UpperLetters(After(s, i))

\* /^\d+:\d+$/
rowRange(s) ==
    \E i \in DOMAIN s : s[i] = ":" /\ DigitString(Before(s, i)) /\ DigitString(After(s, i))

\* /^[A-Z]+\d+:[A-Z]+$/
cellToColumnRange(s) ==
    \E i \in DOMAIN s : s[i] = ":" /\ UpperCell(Before(s, i)) /\ UpperLetters(After(s, i))

\* /^[A-Z]+:\d+$/
columnToRowRange(s) ==
    \E i \in DOMAIN s : s[i] = ":" /\ UpperLetters(Before(s, i)) /\ DigitString(After(s, i))

\* /^\d+:[A-Z]+\d+$/
rowToCellRange(s) ==
    \E i \in DOMAIN s : s[i] = ":" /\ DigitString(Before(s, i)) /\ UpperCell(After(s, i))

\* the six tests on the normalized input
TestNormalized(normalized) ==
    \/ cellOrCellRange(normalized)
    \/ columnRange(normalized)
    \/ rowRange(normalized)
    \/ cellToColumnRange(normalized)
    \/ columnToRowRange(normalized)
    \/ rowToCellRange(normalized)

isValidCellRange(input) ==
    IF input = <<>> THEN FALSE ELSE TestNormalized(StripWhitespace(input))

----------------------------------------------------------------------------
(* The parsing specification: one string is given to both parsers *)

ParseAlphabet == {"A", "B", "b", "1", "2", ":", " "}

ParseInputs == UNION {[1 .. n -> ParseAlphabet] : n \in 0 .. MaxParseLen}

InitParse ==
    /\ ReadIdle
    /\ WriteIdle
    /\ SearchIdle
    /\ ChatIdle
    /\ ToolIdle
    /\ adapter = "web"
    /\ sheet = <<>>
    /\ colIndex = 0
    /\ colLetter = <<>>
    /\ colBack = -1
    /\ prInput \in ParseInputs
    /\ prResult = NoParse

ParseRange ==
    /\ ~prResult.called
    /\ prResult' = [called |-> TRUE,
                    valid |-> isValidCellRange(prInput),
                    parsed |-> parseRangeAddress(prInput)]
    /\ UNCHANGED <<adapter, sheet, colIndex, colLetter, colBack, prInput,
                   readVars, writeVars, searchVars, chatVars, toolVars>>

NextParse == ParseRange

SpecParse == InitParse /\ [][NextParse]_vars

----------------------------------------------------------------------------
(* Claims about range parsing *)

\* the string with whitespace stripped and letters in upper case
Canonical(s) == MapUpper(StripWhitespace(s))

\* the six A1 grammars: A1, A1:B2, A:C, 1:10, A1:B, A:1
SixGrammars(s) ==
    \/ UpperCell(s)
    \/ \E i \in DOMAIN s :
           /\ s[i] = ":"
           /\ \/ UpperCell(Before(s, i)) /\ UpperCell(After(s, i))
              \/ UpperLetters(Before(s, i)) /\ UpperLetters(After(s, i))
              \/ DigitString(Before(s, i)) /\ DigitString(After(s, i))
              \/ UpperCell(Before(s, i)) /\ UpperLetters(After(s, i))
              \/ UpperLetters(Before(s, i)) /\ DigitString(After(s, i))

\* C13: an input that matches none of the six A1 grammars, also after
\* stripping whitespace and upper-casing, is refused by range parsing: the
\* parser returns its error value and the schema test answers false; the
\* inputs "1A", "" and "A1:" are among them.
C13_NonGrammarRefused ==
    (prResult.called /\ ~SixGrammars(Canonical(prInput)))
        => (~prResult.parsed.ok /\ ~prResult.valid)

\* "1A" is refused by both parsers
C13_OneARefused ==
    /\ prResult.called
    /\ prInput = <<"1", "A">>
    /\ ~prResult.parsed.ok
    /\ ~prResult.valid

\* C14: every RangeAddress the parser returns has startRow <= endRow and
\* startCol <= endCol, the reversed input "B2:A1" included.
C14_ParsedRangeOrdered ==
    (prResult.called /\ prResult.parsed.ok)
        => /\ prResult.parsed.startRow <= prResult.parsed.endRow
           /\ prResult.parsed.startCol <= prResult.parsed.endCol

\* "A1:B2" is parsed to the rectangle (0,0)-(1,1)
C14_ForwardRangeParsed ==
    /\ prResult.called
    /\ prInput = <<"A", "1", ":", "B", "2">>
    /\ prResult.parsed = [ok |-> TRUE, startRow |-> 0, startCol |-> 0,
                          endRow |-> 1, endCol |-> 1]

\* C15: a string that differs from an A1 string of the six grammars only in
\* the case of its column letters or in whitespace is accepted, and parsed
\* to the same range as the A1 string.
C15_CaseAndWhitespaceIgnored ==
    (prResult.called /\ SixGrammars(Canonical(prInput)))
        => /\ prResult.valid
           /\ prResult.parsed = parseRangeAddress(Canonical(prInput))

\* "b2" is parsed as "B2" by the case-insensitive parser
C15_LowerCaseParsed ==
    /\ prResult.called
    /\ prInput = <<"b", "2">>
    /\ prResult.parsed = [ok |-> TRUE, startRow |-> 1, startCol |-> 1,
                          endRow |-> 1, endCol |-> 1]

----------------------------------------------------------------------------
(* Copying on the in-memory adapter: setCellRange's copyToRange block and the
   standalone copyTo.  A cell's content is named by the cell it was first
   in, so that a copy shows where its content came from. *)

CopyGrid == (0 .. CopyRows - 1) \X (0 .. CopyCols - 1)

\* a cell nothing was copied to
OwnContent(row, col, formula) == [origin |-> <<row, col>>, formula |-> formula]

\* sheet.getFormula / getValue / getStyle of a cell; the sheet is empty
\* beyond the rows and columns kept here
SheetCell(sh, row, col) ==
    IF <<row, col>> \in DOMAIN sh THEN sh[<<row, col>>] ELSE OwnContent(row, col, FALSE)

\* sheet.setValue + sheet.setStyle of one cell
SheetWrite(sh, row, col, content) ==
    IF <<row, col>> \in DOMAIN sh THEN [sh EXCEPT ![<<row, col>>] = content] ELSE sh

\* the host's sheet.copyTo(fromRow, fromColumn, toRow, toColumn, rowCount,
\* columnCount, option): the block of rowCount x columnCount cells at the
\* source corner is copied to the destination corner
HostCopyTo(sh, fromRow, fromCol, toRow, toCol, rowCount, colCount) ==
    [p \in DOMAIN sh |->
        IF /\ p[1] \in toRow .. toRow + rowCount - 1
           /\ p[2] \in toCol .. toCol + colCount - 1
        THEN SheetCell(sh, fromRow + (p[1] - toRow), fromCol + (p[2] - toCol))
        ELSE sh[p]]

\* the loop over cells: setFormula or setValue on every target cell
WebWriteCells(sh, rangeInfo, formula) ==
    [p \in DOMAIN sh |->
        IF /\ p[1] \in rangeInfo.startRow .. rangeInfo.endRow
           /\ p[2] \in rangeInfo.startCol .. rangeInfo.endCol
        THEN OwnContent(p[1], p[2], formula)
        ELSE sh[p]]

\* one destination cell of the copyToRange loop
WebCopyCell(sh, srcRow, srcCol, dstRow, dstCol) ==
    IF srcRow = dstRow /\ srcCol = dstCol THEN sh
    ELSE IF SheetCell(sh, srcRow, srcCol).formula
         THEN HostCopyTo(sh, srcRow, srcCol, dstRow, dstCol, 1, 1)
         ELSE SheetWrite(sh, dstRow, dstCol, SheetCell(sh, srcRow, srcCol))

\* for r < destRowCount, for c < destColCount; k counts the cells done
RECURSIVE WebCopyPattern(_, _, _, _)
WebCopyPattern(sh, rangeInfo, destInfo, k) ==
    IF k >= (destInfo.endRow - destInfo.startRow + 1) * (destInfo.endCol - destInfo.startCol + 1)
    THEN sh
    ELSE WebCopyPattern(
             WebCopyCell(sh,
                 rangeInfo.startRow
                     + ((k \div (destInfo.endCol - destInfo.startCol + 1))
                            % (rangeInfo.endRow - rangeInfo.startRow + 1)),
                 rangeInfo.startCol
                     + ((k % (destInfo.endCol - destInfo.startCol + 1))
                            % (rangeInfo.endCol - rangeInfo.startCol + 1)),
                 destInfo.startRow + (k \div (destInfo.endCol - destInfo.startCol + 1)),
                 destInfo.startCol + (k % (destInfo.endCol - destInfo.startCol + 1))),
             rangeInfo, destInfo, k + 1)

\* if (copyToRange) { const destInfo = parseRangeAddress(copyToRange); if (destInfo) ...
WebCopyToRange(sh, rangeInfo, destInfo) ==
    IF destInfo.ok THEN WebCopyPattern(sh, rangeInfo, destInfo, 0) ELSE sh

\* copyTo: one sheet.copyTo with the destination's row and column counts
WebCopyTo(sh, sourceInfo, destInfo) ==
    HostCopyTo(sh, sourceInfo.startRow, sourceInfo.startCol,
               destInfo.startRow, destInfo.startCol,
               destInfo.endRow - destInfo.startRow + 1,
               destInfo.endCol - destInfo.startCol + 1)

CopyRanges ==
    {A1Range(c1, r1 + 1, c2, r2 + 1) :
        <<r1, r2, c1, c2>> \in
            {q \in (0 .. CopyRows - 1) \X (0 .. CopyRows - 1)
                     \X (0 .. CopyCols - 1) \X (0 .. CopyCols - 1) :
                q[1] <= q[2] /\ q[3] <= q[4]}}

CopyInputs ==
    [tool : {"setCellRange", "copyTo"}, range : CopyRanges, dest : CopyRanges,
     formula : BOOLEAN]

InitCopy ==
    /\ ReadIdle
    /\ WriteIdle
    /\ SearchIdle
    /\ ChatIdle
    /\ AlgebraIdle
    /\ adapter = "web"
    /\ toolInput \in CopyInputs
    /\ sheet = [p \in CopyGrid |->
                   OwnContent(p[1], p[2], toolInput.tool = "copyTo" /\ toolInput.formula)]
    /\ toolOutput = NoOutput

\* setCellRange with copyToRange: the cells are written, then copied
SetCellRangeCopy ==
    /\ toolInput.tool = "setCellRange"
    /\ toolOutput = NoOutput
    /\ parseRangeAddress(toolInput.range).ok
    /\ sheet' = WebCopyToRange(
                    WebWriteCells(sheet, parseRangeAddress(toolInput.range), toolInput.formula),
                    parseRangeAddress(toolInput.range),
                    parseRangeAddress(toolInput.dest))
    /\ toolOutput' = [status |-> "ok",
                      source |-> WebWriteCells(sheet, parseRangeAddress(toolInput.range),
                                               toolInput.formula)]
    /\ UNCHANGED <<adapter, toolInput, readVars, writeVars, searchVars, chatVars, algebraVars>>

\* the standalone copyTo
CopyToRange ==
    /\ toolInput.tool = "copyTo"
    /\ toolOutput = NoOutput
    /\ parseRangeAddress(toolInput.range).ok
    /\ parseRangeAddress(toolInput.dest).ok
    /\ sheet' = WebCopyTo(sheet, parseRangeAddress(toolInput.range),
                          parseRangeAddress(toolInput.dest))
    /\ toolOutput' = [status |-> "ok", source |-> sheet]
    /\ UNCHANGED <<adapter, toolInput, readVars, writeVars, searchVars, chatVars, algebraVars>>

NextCopy == SetCellRangeCopy \/ CopyToRange

SpecCopy == InitCopy /\ [][NextCopy]_vars

\* rows and columns of a parsed range
RowsOf(info) == info.endRow - info.startRow + 1
ColsOf(info) == info.endCol - info.startCol + 1

\* the destination is at least as large as the source both ways, and larger one way
DestLarger(src, dst) ==
    /\ RowsOf(dst) >= RowsOf(src)
    /\ ColsOf(dst) >= ColsOf(src)
    /\ RowsOf(dst) * ColsOf(dst) > RowsOf(src) * ColsOf(src)

\* every destination cell (r, c) holds the content the source had at
\* (r mod srcRows, c mod srcCols)
PatternFilled(sh, before, src, dst) ==
    \A r \in 0 .. RowsOf(dst) - 1 : \A c \in 0 .. ColsOf(dst) - 1 :
        sh[<<dst.startRow + r, dst.startCol + c>>]
            = before[<<src.startRow + (r % RowsOf(src)), src.startCol + (c % ColsOf(src))>>]

\* C16: when the destination is larger than the source, a finished copy, by
\* setCellRange's copyToRange or by copyTo, leaves every destination cell
\* (r, c) with the content of source cell (r mod srcRows, c mod srcCols).
C16_PatternExpansion ==
    (/\ toolOutput.status = "ok"
     /\ toolInput.tool \in {"setCellRange", "copyTo"}
     /\ DestLarger(parseRangeAddress(toolInput.range), parseRangeAddress(toolInput.dest)))
        => PatternFilled(sheet, toolOutput.source,
                         parseRangeAddress(toolInput.range),
                         parseRangeAddress(toolInput.dest))

\* setCellRange wrote A1:A2 and its copyToRange filled B1:B4 with the pattern
C16_FillDown ==
    /\ toolOutput.status = "ok"
    /\ toolInput.tool = "setCellRange"
    /\ toolInput.range = A1Range(0, 1, 0, 2)
    /\ toolInput.dest = A1Range(1, 1, 1, 4)
    /\ sheet[<<2, 1>>].origin = <<0, 0>>
    /\ sheet[<<3, 1>>].origin = <<1, 0>>

----------------------------------------------------------------------------
(* Claim about the validation message of setCellRange *)

\* the call is setCellRange on "A1:C2" with three rows of two cells, and no
\* host call fails
ThreeByTwoIntoA1C2 ==
    /\ wrInput.op = "setCellRange"
    /\ wrInput.range = <<"A", "1", ":", "C", "2">>
    /\ wrInput.failAt = 0
    /\ Len(wrInput.cells) = 3
    /\ \A r \in DOMAIN wrInput.cells : Len(wrInput.cells[r]) = 2

\* C17: on the batched-sync and the server-side adapter, setCellRange with
\* range "A1:C2" (2 rows x 3 columns) and a cells array of shape 3x2 fails
\* with a validation error that names row 0 and the expected column count 3.
C17_NamesRowZeroExpectedThree ==
    (SetCellRangeDone /\ adapter \in {"excel", "gas"} /\ ThreeByTwoIntoA1C2)
        => /\ wrOutcome = "validation"
           /\ wrError.kind = "columnCount"
           /\ wrError.row = 0
           /\ wrError.expected = 3

\* the 3x2 array on "A1:C2" was rejected by the validation
C17_ThreeByTwoRejected ==
    /\ SetCellRangeDone
    /\ adapter = "gas"
    /\ ThreeByTwoIntoA1C2
    /\ wrOutcome = "validation"

----------------------------------------------------------------------------
(* modifySheetStructure: the tool's input schema, the chat's executeTool and
   the adapters.  An optional field that is left out is "undefined"; a count
   that is left out has hasCount = FALSE. *)

StructureOperations == {"insert", "delete", "hide", "unhide", "freeze", "unfreeze"}

\* ["freeze", "unfreeze"].includes(e.operation)
IsFreezeOp(operation) == operation \in {"freeze", "unfreeze"}

\* JavaScript truthiness of an optional string
TruthyString(x) == x \notin {"undefined", ""}

\* JavaScript truthiness of the optional count
TruthyCount(e) == e.hasCount /\ e.count # 0

\* the z.object: enums, optional fields, count: z.number().min(1).optional()
StructureObject(e) ==
    /\ e.operation \in StructureOperations
    /\ e.dimension \in {"undefined", "rows", "columns"}
    /\ e.position \in {"undefined", "before", "after"}
    /\ e.hasCount => e.count >= 1

\* first refine: always passes, so that a reference is never asked for
ReferenceRefineOff(e) == TRUE

\* first refine: reference
ReferenceRefine(e) ==
    ~ \/ IsFreezeOp(e.operation) /\ TruthyString(e.reference)
      \/ ~IsFreezeOp(e.operation) /\ ~TruthyString(e.reference)

\* second refine: dimension and count
DimensionCountRefine(e) ==
    ~ \/ e.operation = "unfreeze" /\ (TruthyCount(e) \/ TruthyString(e.dimension))
      \/ e.operation = "freeze" /\ (~TruthyCount(e) \/ ~TruthyString(e.dimension))
      \/ ~IsFreezeOp(e.operation) /\ ~TruthyString(e.dimension)

\* the tool's inputSchema
StructureSchema(e) ==
    /\ StructureObject(e)
    /\ ReferenceRefine(e)
    /\ DimensionCountRefine(e)

\* count = 1 when left out (destructuring default)
CountOrOne(e) == IF e.hasCount THEN e.count ELSE 1

\* batched-sync adapter: the host calls of one case of the switch, or the
\* throw that ends it
ExcelStructureCase(e) ==
    IF e.operation \in {"insert", "delete", "hide", "unhide"}
    THEN IF ~TruthyString(e.dimension) \/ ~TruthyString(e.reference)
         THEN [status |-> "error", calls |-> <<>>]
         ELSE [status |-> "ok", calls |-> <<"getRange", e.operation>>]
    ELSE IF e.operation = "freeze"
    THEN IF ~TruthyString(e.dimension)
         THEN [status |-> "error", calls |-> <<>>]
         ELSE [status |-> "ok",
               calls |-> IF e.dimension = "rows" THEN <<"freezeRows">> ELSE <<"freezeColumns">>]
    ELSE [status |-> "ok", calls |-> <<"unfreeze">>]

\* Excel.run: load the worksheets and sync, the switch, the closing sync
ExcelModifySheetStructure(e) ==
    [status |-> ExcelStructureCase(e).status,
     calls |-> <<"load", "sync">> \o ExcelStructureCase(e).calls
                   \o IfOps(ExcelStructureCase(e).status = "ok", <<"sync">>)]

\* in-memory adapter: the host calls of one case of the switch
WebStructureCase(e) ==
    IF e.operation \in {"insert", "delete"}
    THEN IfOps(TruthyString(e.dimension) /\ TruthyString(e.reference), <<e.operation>>)
    ELSE IF e.operation \in {"hide", "unhide"}
    THEN IfOps(TruthyString(e.dimension) /\ TruthyString(e.reference),
               Repeat(CountOrOne(e), <<"setVisible">>))
    ELSE IF e.operation = "freeze"
    THEN IfOps(TruthyString(e.dimension), <<"frozenCount">>)
    ELSE <<"frozenCount", "frozenCount">>

WebModifySheetStructure(e) ==
    [status |-> "ok",
     calls |-> <<"getSheet", "suspendPaint">> \o WebStructureCase(e) \o <<"resumePaint">>]

\* executeTool: a call whose input failed the schema arrives as a dynamic
\* call and is left alone; any other call goes to the adapter
ExecuteStructureTool(a, e) ==
    IF ~StructureSchema(e) THEN [status |-> "rejected", calls |-> <<>>]
    ELSE IF a = "excel" THEN ExcelModifySheetStructure(e)
    ELSE WebModifySheetStructure(e)

StructureInputs ==
    [tool : {"modifySheetStructure"}, operation : StructureOperations,
     dimension : {"undefined", "rows", "columns"},
     reference : {"undefined", "", "2", "B"},
     position : {"undefined", "before", "after"},
     hasCount : {TRUE}, count : 0 .. MaxCount]
    \cup
    [tool : {"modifySheetStructure"}, operation : StructureOperations,
     dimension : {"undefined", "rows", "columns"},
     reference : {"undefined", "", "2", "B"},
     position : {"undefined", "before", "after"},
     hasCount : {FALSE}, count : {0}]

InitStructure ==
    /\ ReadIdle
    /\ WriteIdle
    /\ SearchIdle
    /\ ChatIdle
    /\ AlgebraIdle
    /\ adapter \in {"excel", "web"}
    /\ sheet = <<>>
    /\ toolInput \in StructureInputs
    /\ toolOutput = NoOutput

ModifySheetStructure ==
    /\ toolInput.tool = "modifySheetStructure"
    /\ toolOutput = NoOutput
    /\ toolOutput' = ExecuteStructureTool(adapter, toolInput)
    /\ UNCHANGED <<adapter, sheet, toolInput, readVars, writeVars, searchVars,
                   chatVars, algebraVars>>

NextStructure == ModifySheetStructure

SpecStructure == InitStructure /\ [][NextStructure]_vars

\* C18: a modifySheetStructure call reaches the host only if a (non-empty)
\* reference is given for insert/delete/hide/unhide and none for
\* freeze/unfreeze, dimension and count are both given for freeze and both
\* left out for unfreeze, and dimension is given for every other operation;
\* every other call is rejected with no host call made.
C18_RejectedBeforeHost ==
    toolOutput.status # "none" =>
        /\ (toolOutput.calls = <<>>) = (toolOutput.status = "rejected")
        /\ toolOutput.calls # <<>> =>
               /\ IsFreezeOp(toolInput.operation) = ~TruthyString(toolInput.reference)
               /\ toolInput.operation = "freeze" =>
                      toolInput.dimension # "undefined" /\ toolInput.hasCount
               /\ toolInput.operation = "unfreeze" =>
                      toolInput.dimension = "undefined" /\ ~toolInput.hasCount
               /\ ~IsFreezeOp(toolInput.operation) => toolInput.dimension # "undefined"

\* an insert without a reference was rejected without a host call
C18_InsertWithoutReference ==
    /\ toolOutput.status = "rejected"
    /\ toolOutput.calls = <<>>
    /\ toolInput.operation = "insert"
    /\ toolInput.dimension = "rows"
    /\ toolInput.reference = "undefined"

----------------------------------------------------------------------------
(* modifyObject on the batched-sync adapter.  The host holds one object,
   "obj1", of the call's objectType; properties is the set of keys given. *)

ObjectProperties == {"name", "title", "source", "range", "anchor", "chartType"}

\* the two refines of the tool's inputSchema; properties are partial and loose
ModifyObjectSchema(e) ==
    /\ e.operation = "create" \/ e.id # "undefined"
    /\ e.operation # "update" \/ e.properties # {}

\* getItemOrNullObject(id).isNullObject
ObjectIsNull(id) == id # "obj1"

ObjectOutcome(status, written, created, deleted) ==
    [status |-> status, written |-> written, created |-> created, deleted |-> deleted]

\* objectType === "pivotTable"
ExcelModifyPivotTable(e) ==
    IF e.operation = "create"
    THEN IF "source" \notin e.properties \/ "name" \notin e.properties
         THEN ObjectOutcome("error", {}, FALSE, FALSE)
         ELSE ObjectOutcome("ok", e.properties \cap {"source", "name", "range"}, TRUE, FALSE)
    ELSE IF e.id = "undefined" \/ ObjectIsNull(e.id)
    THEN ObjectOutcome("error", {}, FALSE, FALSE)
    ELSE IF e.operation = "delete"
    THEN ObjectOutcome("ok", {}, FALSE, TRUE)
    ELSE ObjectOutcome("ok", e.properties \cap {"name"}, FALSE, FALSE)

\* objectType === "chart"
ExcelModifyChart(e) ==
    IF e.operation = "create"
    THEN IF "source" \notin e.properties \/ "chartType" \notin e.properties
         THEN ObjectOutcome("error", {}, FALSE, FALSE)
         ELSE ObjectOutcome("ok", e.properties \cap {"source", "chartType", "title", "anchor"},
                            TRUE, FALSE)
    ELSE IF e.id = "undefined" \/ ObjectIsNull(e.id)
    THEN ObjectOutcome("error", {}, FALSE, FALSE)
    ELSE IF e.operation = "delete"
    THEN ObjectOutcome("ok", {}, FALSE, TRUE)
    ELSE ObjectOutcome("ok", e.properties \cap {"title", "anchor", "chartType"}, FALSE, FALSE)

ExcelModifyObject(e) ==
    IF e.objectType = "pivotTable" THEN ExcelModifyPivotTable(e) ELSE ExcelModifyChart(e)

\* executeTool: a call that failed the schema is left alone
ExecuteObjectTool(e) ==
    IF ~ModifyObjectSchema(e) THEN ObjectOutcome("rejected", {}, FALSE, FALSE)
    ELSE ExcelModifyObject(e)

ObjectInputs ==
    [tool : {"modifyObject"}, operation : {"create", "update", "delete"},
     objectType : {"pivotTable", "chart"}, id : {"undefined", "obj1", "obj9"},
     properties : SUBSET ObjectProperties]

InitObject ==
    /\ ReadIdle
    /\ WriteIdle
    /\ SearchIdle
    /\ ChatIdle
    /\ AlgebraIdle
    /\ adapter = "excel"
    /\ sheet = <<>>
    /\ toolInput \in ObjectInputs
    /\ toolOutput = NoOutput

ModifyObject ==
    /\ toolInput.tool = "modifyObject"
    /\ toolOutput = NoOutput
    /\ toolOutput' = ExecuteObjectTool(toolInput)
    /\ UNCHANGED <<adapter, sheet, toolInput, readVars, writeVars, searchVars,
                   chatVars, algebraVars>>

NextObject == ModifyObject

SpecObject == InitObject /\ [][NextObject]_vars

\* the fields that cannot be updated: the source, and the destination location
ImmutableFields(objectType) ==
    IF objectType = "pivotTable" THEN {"source", "range"} ELSE {"source", "anchor"}

\* C19: a modifyObject update whose properties include an immutable field
\* (the source, or the destination location) is rejected, for pivot tables
\* and for charts.
C19_ImmutableUpdateRejected ==
    (/\ toolOutput.status # "none"
     /\ toolInput.operation = "update"
     /\ toolInput.properties \cap ImmutableFields(toolInput.objectType) # {})
        => toolOutput.status \in {"rejected", "error"}

\* an update of the pivot table's source alone left the object as it was
C19_SourceUpdateIgnored ==
    /\ toolOutput.status = "ok"
    /\ toolInput.operation = "update"
    /\ toolInput.objectType = "pivotTable"
    /\ toolInput.properties = {"source"}
    /\ toolOutput.written = {}

----------------------------------------------------------------------------
(* getAllObjects on the batched-sync and the server-side adapter.  Here
   sheet is what the host holds: its pivot tables, each with the field it
   aggregates, and its charts, each with the host's name of its type. *)

\* the chart types the host can report; "Waterfall", "GAUGE" and "null" (no
\* chartType option) have no entry in the adapters' maps
HostChartTypes(a) ==
    IF a = "excel" THEN {"Line", "Pie", "Waterfall"}
    ELSE {"LINE", "TREEMAP", "GAUGE", "null"}

\* entries of the batched-sync adapter's chartTypeMap
ExcelChartTypeMap ==
    [t \in {"ColumnClustered", "Line", "Pie"} |->
        IF t = "Line" THEN "line" ELSE IF t = "Pie" THEN "pie" ELSE "columnClustered"]

\* entries of the server-side adapter's chartTypeMap
GasChartTypeMap ==
    [t \in {"COLUMN", "LINE", "PIE", "TREEMAP"} |->
        IF t = "LINE" THEN "line" ELSE IF t = "PIE" THEN "pie" ELSE "columnClustered"]

\* chartTypeMap[chart.chartType] || "columnClustered"
ExcelChartType(hostType) ==
    IF hostType \in DOMAIN ExcelChartTypeMap THEN ExcelChartTypeMap[hostType]
    ELSE "columnClustered"

\* String(options.get("chartType") || "COLUMN")
GasChartTypeStr(hostType) == IF hostType = "null" THEN "COLUMN" ELSE hostType

\* chartTypeMap[chartTypeStr] || "columnClustered"
GasChartType(hostType) ==
    IF GasChartTypeStr(hostType) \in DOMAIN GasChartTypeMap
    THEN GasChartTypeMap[GasChartTypeStr(hostType)]
    ELSE "columnClustered"

\* if (id && x.id !== id) continue
IdFilter(id, objectId) == id \in {"undefined", ""} \/ objectId = id

ReportedObject(id, type, chartType, fields) ==
    [id |-> id, type |-> type, chartType |-> chartType, fields |-> fields]

\* the pivot tables and the charts of the sheets, pushed to objects
ExcelGetAllObjects(host, id) ==
    {ReportedObject(p.id, "pivotTable", "", {""}) :
        p \in {q \in host.pivotTables : IdFilter(id, q.id)}}
    \cup {ReportedObject(c.id, "chart", ExcelChartType(c.chartType), {}) :
            c \in {d \in host.charts : IdFilter(id, d.id)}}

\* the charts only: pivot tables cannot be enumerated
GasGetAllObjects(host, id) ==
    {ReportedObject(c.id, "chart", GasChartType(c.chartType), {}) :
        c \in {d \in host.charts : IdFilter(id, d.id)}}

HostCharts(a) ==
    {cs \in SUBSET [id : {"c1", "c2"}, chartType : HostChartTypes(a)] :
        \A x \in cs : \A y \in cs : x.id = y.id => x = y}

HostObjects(a) ==
    [pivotTables : SUBSET {[id |-> "p1", field |-> "Sales"]}, charts : HostCharts(a)]

InitObjects ==
    /\ ReadIdle
    /\ WriteIdle
    /\ SearchIdle
    /\ ChatIdle
    /\ AlgebraIdle
    /\ adapter \in {"excel", "gas"}
    /\ sheet \in HostObjects(adapter)
    /\ toolInput \in [tool : {"getAllObjects"}, id : {"undefined", "c1", "p1"}]
    /\ toolOutput = NoOutput

GetAllObjects ==
    /\ toolInput.tool = "getAllObjects"
    /\ toolOutput = NoOutput
    /\ toolOutput' = [status |-> "ok",
                      objects |-> IF adapter = "excel"
                                  THEN ExcelGetAllObjects(sheet, toolInput.id)
                                  ELSE GasGetAllObjects(sheet, toolInput.id)]
    /\ UNCHANGED <<adapter, sheet, toolInput, readVars, writeVars, searchVars,
                   chatVars, algebraVars>>

NextObjects == GetAllObjects

SpecObjects == InitObjects /\ [][NextObjects]_vars

\* the host's names of chart types and the tool's names for the same types
SameChartType ==
    {<<"ColumnClustered", "columnClustered">>, <<"Line", "line">>, <<"Pie", "pie">>,
     <<"COLUMN", "columnClustered">>, <<"LINE", "line">>, <<"PIE", "pie">>}

\* C20: every object that getAllObjects returns is an object of the host,
\* and what is reported of it is what the host holds: a chart's type is the
\* type the host gives it, a pivot table's value fields are fields of that
\* pivot table; what the adapter cannot read or map is left out, not guessed.
C20_NothingFabricated ==
    toolOutput.status = "ok" =>
        \A o \in toolOutput.objects :
            \/ /\ o.type = "pivotTable"
               /\ \E p \in sheet.pivotTables : p.id = o.id /\ o.fields \subseteq {p.field}
            \/ /\ o.type = "chart"
               /\ \E c \in sheet.charts :
                      c.id = o.id /\ <<c.chartType, o.chartType>> \in SameChartType

\* the host's line chart is listed as a line chart
C20_LineChartListed ==
    /\ toolOutput.status = "ok"
    /\ adapter = "gas"
    /\ [id |-> "c1", chartType |-> "LINE"] \in sheet.charts
    /\ ReportedObject("c1", "chart", "line", {}) \in toolOutput.objects

----------------------------------------------------------------------------
(* Styles: what setCellRange writes for a cell's cellStyles and what
   getCellRanges with includeStyles reads back.  Here sheet is the style the
   host holds for the one cell; a font string is the sequence of its words,
   and every reported attribute is a sequence of words. *)

\* `${fontSize}pt` and parseFloat of it
SizeWords == {"10pt", "11pt", "14pt"}
SizeWord(n) == IF n = 10 THEN "10pt" ELSE IF n = 11 THEN "11pt" ELSE "14pt"
SizeText(n) == IF n = 10 THEN "10" ELSE IF n = 11 THEN "11" ELSE "14"
PtSize(word) == IF word = "10pt" THEN 10 ELSE IF word = "11pt" THEN 11 ELSE 14

\* a cell the host gives its default style
DefaultStyle(a) ==
    IF a = "web" THEN [font |-> <<>>]
    ELSE IF a = "excel" THEN [bold |-> FALSE, italic |-> FALSE, size |-> 11, name |-> "Calibri"]
    ELSE [fontWeight |-> "normal", fontStyle |-> "normal", fontSize |-> 10,
          fontFamily |-> "Arial"]

\* batched-sync adapter: cellRange.format.font.* = ...
ExcelWriteStyle(host, st) ==
    [bold |-> IF st.fontWeight = "bold" THEN TRUE
              ELSE IF st.fontWeight = "normal" THEN FALSE ELSE host.bold,
     italic |-> IF st.fontStyle = "italic" THEN TRUE
                ELSE IF st.fontStyle = "normal" THEN FALSE ELSE host.italic,
     size |-> IF st.fontSize # 0 THEN st.fontSize ELSE host.size,
     name |-> IF st.fontFamily # "undefined" THEN st.fontFamily ELSE host.name]

\* server-side adapter: cellRange.setFontWeight(...) and the like
GasWriteStyle(host, st) ==
    [fontWeight |-> IF st.fontWeight \in {"bold", "normal"} THEN st.fontWeight
                    ELSE host.fontWeight,
     fontStyle |-> IF st.fontStyle \in {"italic", "normal"} THEN st.fontStyle
                   ELSE host.fontStyle,
     fontSize |-> IF st.fontSize # 0 THEN st.fontSize ELSE host.fontSize,
     fontFamily |-> IF st.fontFamily # "undefined" THEN st.fontFamily ELSE host.fontFamily]

\* in-memory adapter: fontParts.join(" ")
WebFontParts(st) ==
    IfOps(st.fontWeight = "bold", <<"bold">>)
        \o IfOps(st.fontStyle = "italic", <<"italic">>)
        \o <<SizeWord(IF st.fontSize # 0 THEN st.fontSize ELSE 11)>>
        \o <<IF st.fontFamily # "undefined" THEN st.fontFamily ELSE "Calibri">>

\* in-memory adapter: newStyle.font is set when a font field is given
WebWriteStyle(host, st) ==
    IF \/ st.fontWeight # "undefined" \/ st.fontStyle # "undefined"
       \/ st.fontSize # 0 \/ st.fontFamily # "undefined"
    THEN [font |-> WebFontParts(st)]
    ELSE host

\* font.match(/(\d+pt\s+)?(.+)$/i)[2]: the match starts at the first
\* character, so the size is dropped only when the font begins with it
FontFamilyMatch(font) ==
    IF Len(font) >= 2 /\ font[1] \in SizeWords THEN Tail(font) ELSE font

\* parseFontString's size: the part that ends with "pt"
FontSizePart(font) ==
    IF \E i \in DOMAIN font : font[i] \in SizeWords
    THEN PtSize(font[CHOOSE i \in DOMAIN font :
                        /\ font[i] \in SizeWords
                        /\ \A j \in DOMAIN font : font[j] \in SizeWords => j <= i])
    ELSE 0

\* one reported attribute
Attr(present, key, words) == IF present THEN {<<key, words>>} ELSE {}

\* in-memory adapter: the cellStyles read from sheet.getStyle
WebReadStyle(host) ==
    IF host.font = <<>> THEN {}
    ELSE Attr("bold" \in Range(host.font), "b", <<"true">>)
         \cup Attr("italic" \in Range(host.font), "i", <<"true">>)
         \cup Attr(FontSizePart(host.font) \notin {0, 11}, "sz",
                   <<SizeText(FontSizePart(host.font))>>)
         \cup Attr(FontFamilyMatch(host.font) # <<"Calibri">>, "family",
                   FontFamilyMatch(host.font))

\* server-side adapter: the cellStyles read from the range's getters
GasReadStyle(host) ==
    Attr(host.fontWeight = "bold", "b", <<"true">>)
    \cup Attr(host.fontStyle = "italic", "i", <<"true">>)
    \cup Attr(host.fontSize # 10, "sz", <<SizeText(host.fontSize)>>)
    \cup Attr(host.fontFamily # "Arial", "family", <<host.fontFamily>>)

\* batched-sync adapter: the format is loaded, and styles is never filled
ExcelReadStyle(host) == {}

StyleInputs ==
    [tool : {"styles"}, fontWeight : {"undefined", "bold", "normal"},
     fontStyle : {"undefined", "italic"}, fontSize : {0, 11, 14},
     fontFamily : {"undefined", "Arial"}]

InitStyle ==
    /\ ReadIdle
    /\ WriteIdle
    /\ SearchIdle
    /\ ChatIdle
    /\ AlgebraIdle
    /\ adapter \in Adapters
    /\ sheet = DefaultStyle(adapter)
    /\ toolInput \in StyleInputs
    /\ toolOutput = NoOutput

\* setCellRange with the cell's cellStyles
SetCellStyle ==
    /\ toolInput.tool = "styles"
    /\ toolOutput = NoOutput
    /\ sheet' = IF adapter = "excel" THEN ExcelWriteStyle(sheet, toolInput)
                ELSE IF adapter = "gas" THEN GasWriteStyle(sheet, toolInput)
                ELSE WebWriteStyle(sheet, toolInput)
    /\ toolOutput' = [status |-> "written"]
    /\ UNCHANGED <<adapter, toolInput, readVars, writeVars, searchVars, chatVars, algebraVars>>

\* getCellRanges with includeStyles = true
GetCellStyle ==
    /\ toolInput.tool = "styles"
    /\ toolOutput.status = "written"
    /\ toolOutput' = [status |-> "read",
                      styles |-> IF adapter = "excel" THEN ExcelReadStyle(sheet)
                                 ELSE IF adapter = "gas" THEN GasReadStyle(sheet)
                                 ELSE WebReadStyle(sheet)]
    /\ UNCHANGED <<adapter, sheet, toolInput, readVars, writeVars, searchVars,
                   chatVars, algebraVars>>

NextStyle == SetCellStyle \/ GetCellStyle

SpecStyle == InitStyle /\ [][NextStyle]_vars

\* the style written consists of the bold font weight only
OnlyBold ==
    /\ toolInput.fontWeight = "bold"
    /\ toolInput.fontStyle = "undefined"
    /\ toolInput.fontSize = 0
    /\ toolInput.fontFamily = "undefined"

\* C21: in every adapter, writing only the bold font weight to a
\* default-styled cell and reading the cell back with includeStyles yields
\* exactly {b: true} for the cell.
C21_BoldRoundTrip ==
    (toolOutput.status = "read" /\ OnlyBold) => toolOutput.styles = {<<"b", <<"true">>>>}

\* the server-side adapter read the bold cell back as {b: true}
C21_BoldReadBack ==
    /\ toolOutput.status = "read"
    /\ OnlyBold
    /\ adapter = "gas"
    /\ toolOutput.styles = {<<"b", <<"true">>>>}

----------------------------------------------------------------------------
(* searchData with a sheetId: which sheets are searched.  The workbook holds
   one sheet, with id 0; sheet is its grid. *)

HostSheetIds == {0}

\* sheetId !== undefined ? sheets.filter(id === sheetId) : sheets
SheetsToSearch(in) ==
    IF in.hasSheetId THEN HostSheetIds \cap {in.sheetId} ELSE HostSheetIds

SearchOutput(result, message) ==
    [status |-> "ok", matches |-> result.matches, totalFound |-> result.totalFound,
     hasMore |-> result.hasMore, message |-> message]

\* batched-sync and server-side adapter: if (sheetsToSearch.length === 0) return {...}
NoSheetResult(in) ==
    SearchOutput(SearchResult(<<>>, 0, FALSE, -1),
                 IF in.hasSheetId THEN "Sheet with ID not found" ELSE "undefined")

\* in-memory adapter: [workbook.getSheet(sheetId)], and a missing sheet is
\* skipped by if (!sheet) continue; the result has no message field
WebSearchSheets(in) ==
    IF SheetsToSearch(in) = {}
    THEN SearchOutput(SearchResult(<<>>, 0, FALSE, -1), "undefined")
    ELSE SearchOutput(WebSearchData(SearchRows, SearchCols, in.maxResults), "undefined")

AdapterSearchSheets(a, in) ==
    IF a = "web" THEN WebSearchSheets(in)
    ELSE IF SheetsToSearch(in) = {} THEN NoSheetResult(in)
    ELSE SearchOutput(AdapterSearchData(a, SearchRows, SearchCols, 0, in.maxResults),
                      "undefined")

SheetSearchInputs ==
    [tool : {"searchData"}, hasSheetId : {TRUE}, sheetId : {0, 7}, maxResults : 1 .. MaxResults]
    \cup [tool : {"searchData"}, hasSheetId : {FALSE}, sheetId : {0},
          maxResults : 1 .. MaxResults]

InitSheetSearch ==
    /\ ReadIdle
    /\ WriteIdle
    /\ SearchIdle
    /\ ChatIdle
    /\ AlgebraIdle
    /\ adapter \in Adapters
    /\ sheet \in [SearchGrid -> {"value", "other"}]
    /\ toolInput \in SheetSearchInputs
    /\ toolOutput = NoOutput

SearchSheets ==
    /\ toolInput.tool = "searchData"
    /\ toolOutput = NoOutput
    /\ toolOutput' = AdapterSearchSheets(adapter, toolInput)
    /\ UNCHANGED <<adapter, sheet, toolInput, readVars, writeVars, searchVars,
                   chatVars, algebraVars>>

NextSheetSearch == SearchSheets

SpecSheetSearch == InitSheetSearch /\ [][NextSheetSearch]_vars

\* the call names a sheet the workbook does not hold
UnknownSheet == toolInput.hasSheetId /\ toolInput.sheetId \notin HostSheetIds

\* C22: in every adapter, searchData with a sheetId that does not exist
\* does not fail, and returns no match together with an explanatory message.
C22_UnknownSheetExplained ==
    (toolOutput.status # "none" /\ UnknownSheet)
        => /\ toolOutput.status = "ok"
           /\ toolOutput.matches = <<>>
           /\ toolOutput.message # "undefined"

\* the batched-sync adapter answered an unknown sheet with the message
C22_NotFoundMessage ==
    /\ toolOutput.status = "ok"
    /\ UnknownSheet
    /\ adapter = "excel"
    /\ toolOutput.matches = <<>>
    /\ toolOutput.message = "Sheet with ID not found"

----------------------------------------------------------------------------
(* activateSheet, clearSelection and selectRange on the in-memory and the
   server-side adapter.  Here sheet is the host: whether a workbook is
   there, which of its sheets 0 and 1 is active (-1: none), and the selection
   of each sheet. *)

SelectionSheets == {0, 1}

OneCell(sel) == [sel EXCEPT !.endRow = sel.startRow, !.endCol = sel.startCol]

SelectionOf(info) ==
    [startRow |-> info.startRow, startCol |-> info.startCol,
     endRow |-> info.endRow, endCol |-> info.endCol]

Returned(host) == [status |-> "ok", host |-> host]
Raised(host) == [status |-> "raised", host |-> host]

\* sheet.setSelection on the active sheet
SetSelection(host, sel) ==
    [host EXCEPT !.selection = [@ EXCEPT ![host.active] = sel]]

\* what workbook.setActiveSheetIndex does with an index that is no sheet's:
\* the host library is not part of the repository
IndexOutcomes == {"ignored", "noActiveSheet", "throws"}

WebActivateSheet(host, sheetId) ==
    IF ~host.workbook THEN Returned(host)
    ELSE IF sheetId \in SelectionSheets THEN Returned([host EXCEPT !.active = sheetId])
    ELSE Returned(host)

WebClearSelection(host) ==
    IF ~host.workbook THEN Returned(host)
    ELSE IF host.active \in SelectionSheets
    THEN Returned(SetSelection(host, OneCell(host.selection[host.active])))
    ELSE Returned(host)

\* the selection step of selectRange, after setActiveSheetIndex
WebSelectActive(host, range) ==
    IF parseRangeAddress(range).ok /\ host.active \in SelectionSheets
    THEN Returned(SetSelection(host, SelectionOf(parseRangeAddress(range))))
    ELSE Returned(host)

WebSelectRange(host, in, outcome) ==
    IF ~host.workbook THEN Returned(host)
    ELSE IF in.sheetId \in SelectionSheets
    THEN WebSelectActive([host EXCEPT !.active = in.sheetId], in.range)
    ELSE IF outcome = "throws" THEN Raised(host)
    ELSE IF outcome = "noActiveSheet"
    THEN WebSelectActive([host EXCEPT !.active = -1], in.range)
    ELSE WebSelectActive(host, in.range)

GasActivateSheet(host, sheetId) ==
    IF sheetId \notin SelectionSheets THEN Returned(host)
    ELSE Returned([host EXCEPT !.active = sheetId])

GasClearSelection(host) ==
    Returned(SetSelection(host, OneCell(host.selection[host.active])))

\* sheet.getRange(range) throws for a string that is no range
GasSelectRange(host, in) ==
    IF in.sheetId \notin SelectionSheets THEN Returned(host)
    ELSE IF ~isValidCellRange(in.range) THEN Raised([host EXCEPT !.active = in.sheetId])
    ELSE Returned(SetSelection([host EXCEPT !.active = in.sheetId],
                               SelectionOf(parseRangeAddress(in.range))))

AdapterSelection(a, host, in, outcome) ==
    IF a = "web"
    THEN IF in.tool = "activateSheet" THEN WebActivateSheet(host, in.sheetId)
         ELSE IF in.tool = "clearSelection" THEN WebClearSelection(host)
         ELSE WebSelectRange(host, in, outcome)
    ELSE IF in.tool = "activateSheet" THEN GasActivateSheet(host, in.sheetId)
         ELSE IF in.tool = "clearSelection" THEN GasClearSelection(host)
         ELSE GasSelectRange(host, in)

SelectionInputs ==
    [tool : {"activateSheet", "clearSelection", "selectRange"}, sheetId : {0, 1, 5},
     range : {A1Range(0, 1, 1, 2), A1Cell(1, 2), <<"1", "A">>}]

SelectionHosts(a) ==
    [workbook : IF a = "web" THEN BOOLEAN ELSE {TRUE},
     active : SelectionSheets,
     selection : {[i \in SelectionSheets |->
                      [startRow |-> 0, startCol |-> 0, endRow |-> 2, endCol |-> 0]]}]

InitSelection ==
    /\ ReadIdle
    /\ WriteIdle
    /\ SearchIdle
    /\ ChatIdle
    /\ AlgebraIdle
    /\ adapter \in {"web", "gas"}
    /\ sheet \in SelectionHosts(adapter)
    /\ toolInput \in SelectionInputs
    /\ toolOutput = NoOutput

SelectionCall ==
    /\ toolInput.tool \in {"activateSheet", "clearSelection", "selectRange"}
    /\ toolOutput = NoOutput
    /\ \E outcome \in IndexOutcomes :
          /\ sheet' = AdapterSelection(adapter, sheet, toolInput, outcome).host
          /\ toolOutput' = [status |-> AdapterSelection(adapter, sheet, toolInput, outcome).status,
                            before |-> sheet]
    /\ UNCHANGED <<adapter, toolInput, readVars, writeVars, searchVars, chatVars, algebraVars>>

NextSelection == SelectionCall

SpecSelection == InitSelection /\ [][NextSelection]_vars

\* the workbook is missing, or the call addresses a sheet the workbook lacks
TargetMissing ==
    \/ ~toolOutput.before.workbook
    \/ /\ toolInput.tool \in {"activateSheet", "selectRange"}
       /\ toolInput.sheetId \notin SelectionSheets

\* C23: activateSheet, clearSelection and selectRange never raise, and when
\* the workbook or the addressed sheet is missing they leave the host as it
\* was.
C23_SelectionNeverRaises ==
    toolOutput.status # "none" =>
        /\ toolOutput.status = "ok"
        /\ TargetMissing => sheet = toolOutput.before

\* activateSheet on a sheet the workbook lacks returned and changed nothing
C23_MissingSheetNoOp ==
    /\ toolOutput.status = "ok"
    /\ toolInput.tool = "activateSheet"
    /\ toolInput.sheetId = 5
    /\ toolOutput.before.workbook
    /\ sheet = toolOutput.before

----------------------------------------------------------------------------
(* Reading to the end: the agent keeps calling getCellRanges with the
   nextRanges of the previous call for as long as it is given any *)

\* a fully populated sheet, and one or two ranges within its first rows
InitReadAll ==
    /\ WriteIdle
    /\ SearchIdle
    /\ ChatIdle
    /\ AlgebraIdle
    /\ ToolIdle
    /\ adapter \in Adapters
    /\ sheet = [p \in Grid |-> "value"]
    /\ rdRanges \in {<<a>> : a \in Rects(ShortRows)}
                     \cup {<<a, b>> : a \in Rects(ShortRows), b \in Rects(ShortRows)}
    /\ rdLimit \in 1 .. MaxLimit
    /\ rdAsked = <<>>
    /\ rdResult = NoResult
    /\ rdPhase = "idle"

\* the agent making a call: the guard of NextRead and what every call
\* records, whatever the call returns
MakeCall ==
    /\ \/ rdPhase = "idle"
       \/ rdPhase = "returned" /\ rdResult.hasMore /\ Len(rdRanges) > 0
    /\ rdAsked' = rdRanges
    /\ rdPhase' = "returned"

\* the agent makes the next call whenever there is one to make; under
\* [][NextRead]_vars a MakeCall step is a step of NextRead
SpecReadAll ==
    InitReadAll /\ [][NextRead]_vars /\ WF_<<rdAsked, rdPhase>>(MakeCall)

\* C24: for any requested ranges and any cellLimit >= 1, calling
\* getCellRanges again and again with the previous call's nextRanges
\* eventually returns hasMore = false (the point at which every non-empty
\* cell of the requested ranges is to have been returned).
C24_ReadingEnds == <>(rdPhase = "returned" /\ ~rdResult.hasMore)

\* a call over the lower rows of a range returned its cells and hasMore = false
C24_SecondCallEnds ==
    /\ rdPhase = "returned"
    /\ ~rdResult.hasMore
    /\ rdResult.cells # {}
    /\ Len(rdAsked) = 1
    /\ Resolve(adapter, rdAsked[1]).rowIndex > 0

----------------------------------------------------------------------------
(* The size of one getCellRanges result *)

\* C25: a single getCellRanges call never returns more than cellLimit
\* non-empty cells, ranges of several columns included.
C25_AtMostCellLimit ==
    rdPhase = "returned" => Cardinality(rdResult.cells) <= rdLimit

\* a call over a range two columns wide stopped at the limit, with more to read
C25_WideRangeTruncated ==
    /\ rdPhase = "returned"
    /\ rdResult.hasMore
    /\ Len(rdAsked) = 1
    /\ Resolve(adapter, rdAsked[1]).columnCount = 2
    /\ rdResult.cells # {}

----------------------------------------------------------------------------
(* How often one tool call is executed *)

\* the positions of the log at which the call with this id was executed
ExecutionsOf(id) == {i \in DOMAIN chatLog : ExecutedAt(i) /\ chatLog[i].id = id}

\* C26: each tool call, identified by its toolCallId, is executed against
\* the spreadsheet at most once, whatever the edit mode and whatever the
\* user does with the approval controls.
C26_ExecutedAtMostOnce ==
    \A id \in DOMAIN toolCalls : Cardinality(ExecutionsOf(id)) <= 1

\* the user approved a call, and the approval executed it
C26_ApprovedAndExecuted ==
    \E i \in DOMAIN chatLog :
        /\ chatLog[i].event = "approve"
        /\ ExecutionsOf(chatLog[i].id) # {}

----------------------------------------------------------------------------
(* The tool set: what each tool's description says it does, and the chat
   over calls of any of the spreadsheet tools *)

\* the first word of each spreadsheet tool's description
ToolDescription ==
    [getCellRanges |-> "READ", searchData |-> "READ", getAllObjects |-> "READ",
     setCellRange |-> "WRITE", modifySheetStructure |-> "WRITE",
     modifyWorkbookStructure |-> "WRITE", copyTo |-> "WRITE",
     modifyObject |-> "WRITE", resizeRange |-> "WRITE", clearCellRange |-> "WRITE"]

SpreadsheetTools == DOMAIN ToolDescription

WriteDescribed == {t \in SpreadsheetTools : ToolDescription[t] = "WRITE"}

\* toolsWithApprovalRequiredConfigured: the tools given needsApproval: true
toolsWithApprovalRequiredConfigured == {t \in SpreadsheetTools : needsApproval(t)}

\* the core chat component with one assistant message of MaxCalls calls
InitToolset ==
    /\ AlgebraIdle
    /\ ToolIdle
    /\ ReadIdle
    /\ WriteIdle
    /\ SearchIdle
    /\ adapter = "excel"
    /\ sheet = <<>>
    /\ chatVariant = "core"
    /\ editMode = EDIT_MODES[1]
    /\ toolCalls \in [1 .. MaxCalls ->
                        [toolName : SpreadsheetTools, state : {"pending"}, approval : {"none"}]]
    /\ chatLog = <<>>

SpecToolset == InitToolset /\ [][NextChat]_vars

\* C27: every tool whose description is marked WRITE is configured with
\* needsApproval, and a call of such a tool is not executed in "ask" mode
\* unless the user approved it before.
C27_WriteToolsListed ==
    /\ \A id \in DOMAIN toolCalls :
          toolCalls[id].toolName \in WriteDescribed =>
              toolCalls[id].toolName \in toolsWithApprovalRequiredConfigured
    /\ \A i \in DOMAIN chatLog :
          (/\ ExecutedAt(i)
           /\ chatLog[i].mode = "ask"
           /\ toolCalls[chatLog[i].id].toolName \in WriteDescribed) =>
              \E j \in 1 .. i - 1 :
                  chatLog[j].event = "approve" /\ chatLog[j].id = chatLog[i].id

\* a call of a tool described as WRITE was executed in "ask" mode
C27_WriteExecutedInAsk ==
    \E i \in DOMAIN chatLog :
        /\ ExecutedAt(i)
        /\ chatLog[i].mode = "ask"
        /\ toolCalls[chatLog[i].id].toolName \in WriteDescribed

----------------------------------------------------------------------------
(* mergeMCPTools: the tools of the connected MCP servers merged into the
   built-in tools.  A tool name is the sequence of the parts it is
   concatenated from; no built-in name holds an underscore. *)

MaxConnections == 2

BuiltInNames == {<<"getCellRanges">>, <<"setCellRange">>}

\* the existingTools argument: toolsWithApprovalRequiredConfigured
ExistingTools ==
    [n \in BuiltInNames |->
        [origin |-> "builtin", needsApproval |-> needsApproval(n[1])]]

\* `${connection.config.id}_${toolName}` or toolName
FinalToolName(prefixWithServerId, id, toolName) ==
    IF prefixWithServerId THEN <<id, "_">> \o toolName ELSE toolName

\* the tools one connection contributes, by their final names
ConnectionTools(connection, prefixWithServerId, toolsRequiringApproval) ==
    LET allApprovalTools == toolsRequiringApproval \cup connection.toolsRequiringApproval
        id == connection.id
    IN  [n \in {FinalToolName(prefixWithServerId, id, t) : t \in connection.tools} |->
            LET toolName == CHOOSE t \in connection.tools :
                                FinalToolName(prefixWithServerId, id, t) = n
            IN  [origin |-> id,
                 needsApproval |-> toolName \in allApprovalTools \/ n \in allApprovalTools]]

\* mergedTools[finalToolName] = ... for every tool of the connection
AssignTools(mergedTools, added) ==
    [n \in DOMAIN mergedTools \cup DOMAIN added |->
        IF n \in DOMAIN added THEN added[n] ELSE mergedTools[n]]

RECURSIVE MergeConnections(_, _, _, _)
MergeConnections(mergedTools, mcpConnections, prefixWithServerId, toolsRequiringApproval) ==
    IF mcpConnections = <<>> THEN mergedTools
    ELSE MergeConnections(
             AssignTools(mergedTools,
                         ConnectionTools(Head(mcpConnections), prefixWithServerId,
                                         toolsRequiringApproval)),
             Tail(mcpConnections), prefixWithServerId, toolsRequiringApproval)

mergeMCPTools(existingTools, mcpConnections, prefixWithServerId) ==
    MergeConnections(existingTools, mcpConnections, prefixWithServerId, {})

\* prepareCall: merge only when there are connections
FinalTools(mcpConnections, prefixWithServerId) ==
    IF Len(mcpConnections) > 0
    THEN mergeMCPTools(ExistingTools, mcpConnections, prefixWithServerId)
    ELSE ExistingTools

McpToolNames == {<<"lookup">>, <<"setCellRange">>}

McpConnections ==
    [id : {"a", "b"},
     tools : (SUBSET McpToolNames) \ {{}},
     toolsRequiringApproval : {{}, {<<"lookup">>}, {<<"a", "_", "lookup">>}}]

MergeInputs ==
    [tool : {"prepareCall"},
     prefixWithServerId : BOOLEAN,
     mcpConnections : UNION {[1 .. k -> McpConnections] : k \in 0 .. MaxConnections}]

InitMerge ==
    /\ ReadIdle
    /\ WriteIdle
    /\ SearchIdle
    /\ ChatIdle
    /\ AlgebraIdle
    /\ adapter = "excel"
    /\ sheet = <<>>
    /\ toolInput \in MergeInputs
    /\ toolOutput = NoOutput

PrepareCall ==
    /\ toolOutput = NoOutput
    /\ toolInput.tool = "prepareCall"
    /\ toolOutput' = [status |-> "prepared",
                      tools |-> FinalTools(toolInput.mcpConnections,
                                           toolInput.prefixWithServerId)]
    /\ UNCHANGED <<adapter, sheet, toolInput, readVars, writeVars, searchVars,
                   chatVars, algebraVars>>

NextMerge == PrepareCall

SpecMerge == InitMerge /\ [][NextMerge]_vars

\* C28: merging MCP tools never removes or replaces a built-in tool: every
\* built-in tool is in the merged set under its own name with its original
\* definition, needsApproval included.
C28_BuiltInsKept ==
    toolOutput.status = "prepared" =>
        \A n \in BuiltInNames :
            /\ n \in DOMAIN toolOutput.tools
            /\ toolOutput.tools[n] = ExistingTools[n]

\* the tools of a server were merged in under their own names
C28_ServerToolsMerged ==
    /\ toolOutput.status = "prepared"
    /\ ~toolInput.prefixWithServerId
    /\ Len(toolInput.mcpConnections) > 0
    /\ <<"lookup">> \in DOMAIN toolOutput.tools

----------------------------------------------------------------------------
(* The MCP client registry: connectToMCP and disconnectFromMCP calls for one
   connection id, interleaved at their awaits.  Here sheet is the module's
   state (the client registered under the id, 0 for none; the number of
   clients created; the clients whose close() was called), toolInput the
   calls with their positions, toolOutput what each call returned and the
   client that was registered when it returned. *)

MaxMcpCalls == 2

McpCalls == 1 .. MaxMcpCalls

NoClient == 0

NotReturned == [returned |-> "none", registered |-> NoClient]

\* where a call goes on after its disconnectFromMCP part
AfterDisconnect(op) == IF op = "connect" THEN "creating" ELSE "done"

\* what a call that has disconnected has returned: disconnectFromMCP is over
Disconnected(c, op, out, registered) ==
    IF op = "connect" THEN out
    ELSE [out EXCEPT ![c] = [returned |-> "void", registered |-> registered]]

InitMcp ==
    /\ ReadIdle
    /\ WriteIdle
    /\ SearchIdle
    /\ ChatIdle
    /\ AlgebraIdle
    /\ adapter = "excel"
    /\ sheet = [activeClients |-> NoClient, created |-> 0, closed |-> {}]
    /\ toolInput \in [McpCalls -> [op : {"connect", "disconnect"}, pc : {"idle"}]]
    /\ toolOutput = [c \in McpCalls |-> NotReturned]

\* disconnectFromMCP up to its await: activeClients.get and client.close();
\* connectToMCP starts with it
DisconnectFromMCP(c) ==
    /\ toolInput[c].pc = "idle"
    /\ IF sheet.activeClients # NoClient
       THEN /\ sheet' = [sheet EXCEPT !.closed = @ \cup {sheet.activeClients}]
            /\ toolInput' = [toolInput EXCEPT ![c].pc = "closing"]
            /\ UNCHANGED toolOutput
       ELSE /\ toolInput' = [toolInput EXCEPT ![c].pc = AfterDisconnect(toolInput[c].op)]
            /\ toolOutput' = Disconnected(c, toolInput[c].op, toolOutput, sheet.activeClients)
            /\ UNCHANGED sheet

\* client.close() has settled: activeClients.delete(connectionId)
ClientClosed(c) ==
    /\ toolInput[c].pc = "closing"
    /\ sheet' = [sheet EXCEPT !.activeClients = NoClient]
    /\ toolInput' = [toolInput EXCEPT ![c].pc = AfterDisconnect(toolInput[c].op)]
    /\ toolOutput' = Disconnected(c, toolInput[c].op, toolOutput, NoClient)

\* createMCPClient has settled: the client is registered, or the catch
\* block returns null
CreateMCPClient(c, resolved) ==
    /\ toolInput[c].pc = "creating"
    /\ IF resolved
       THEN /\ sheet' = [sheet EXCEPT !.created = @ + 1, !.activeClients = sheet.created + 1]
            /\ toolInput' = [toolInput EXCEPT ![c].pc = "tools"]
            /\ UNCHANGED toolOutput
       ELSE /\ toolInput' = [toolInput EXCEPT ![c].pc = "done"]
            /\ toolOutput' = [toolOutput EXCEPT ![c] =
                                 [returned |-> "null", registered |-> sheet.activeClients]]
            /\ UNCHANGED sheet

\* client.tools() has settled: the client is returned, or the catch block
\* returns null
ClientTools(c, resolved) ==
    /\ toolInput[c].pc = "tools"
    /\ toolInput' = [toolInput EXCEPT ![c].pc = "done"]
    /\ toolOutput' = [toolOutput EXCEPT ![c] =
                         [returned |-> IF resolved THEN "client" ELSE "null",
                          registered |-> sheet.activeClients]]
    /\ UNCHANGED sheet

NextMcp ==
    \E c \in McpCalls :
        /\ \/ DisconnectFromMCP(c)
           \/ ClientClosed(c)
           \/ \E resolved \in BOOLEAN : CreateMCPClient(c, resolved)
           \/ \E resolved \in BOOLEAN : ClientTools(c, resolved)
        /\ UNCHANGED <<adapter, readVars, writeVars, searchVars, chatVars, algebraVars>>

SpecMcp == InitMcp /\ [][NextMcp]_vars

\* C29: when connectToMCP has returned null, no client is registered for
\* the connection id.
C29_NullMeansUnregistered ==
    \A c \in DOMAIN toolOutput :
        toolOutput[c].returned = "null" => toolOutput[c].registered = NoClient

\* a connectToMCP call returned null
C29_ReturnedNull ==
    \E c \in DOMAIN toolOutput :
        toolInput[c].op = "connect" /\ toolOutput[c].returned = "null"

\* C30: under any interleaving of the calls, every client that was created
\* and is not the registered one has been closed.
C30_UnregisteredClosed ==
    \A client \in 1 .. sheet.created :
        client # sheet.activeClients => client \in sheet.closed

\* a later call closed and unregistered the client a connect had registered
C30_ClosedAndRemoved ==
    /\ sheet.created > 0
    /\ sheet.activeClients = NoClient
    /\ sheet.closed # {}

====
